---- MODULE Spec2Model ----
(***************************************************************************)
(* Model of the bounded-concurrency batch executors of the repository      *)
(* layer (BaseRepository.BatchOperation, BatchOperationWithResults,        *)
(* ConcurrentFetch, BulkDelete, UserRepository.CreateBatch, FindByIDs) and *)
(* of the Bricklink aggregation BricklinkService.GetMinifigComplete, and   *)
(* of one signed request, BricklinkService.makeRequest (SpecReq).  The     *)
(* other specifications follow one call of WithTransaction (SpecTx), one   *)
(* call of ExecuteInBatches (SpecChunks), one /health request              *)
(* (SpecHealth) and concurrent requests to the user endpoints (SpecUsers). *)
(*                                                                         *)
(* One call of one of these functions is modelled: the caller goroutine    *)
(* (callerPc) and one goroutine per item (pc[t]).  The errgroup the code   *)
(* uses is modelled by its observable state: the wait-group counter wg,    *)
(* the once-only error gErr and the derived context's done flag gCtxDone.  *)
(***************************************************************************)
EXTENDS Integers, Sequences, FiniteSets, TLC

\* ------------------------------------------------------------------ bounds
MaxItems == 3
MaxConc == 2
\* clock readings (in half milliseconds) during one GetMinifigComplete
MaxClock == 2

\* rows one transaction may write
MaxRows == 3

\* the largest batchSize given to ExecuteInBatches
MaxBatch == 3

\* the most checkers a health.Service is built with
MaxCheckers == 3

\* the number of concurrent requests to the user endpoints
MaxRequests == 2

\* sem := make(chan struct{}, 10) in CreateBatch and FindByIDs
UserBatchConcurrency == 10

\* ----------------------------------------------------------------- names
GatedParamFns == {"BatchOperation", "BatchOperationWithResults", "ConcurrentFetch",
    "BulkDelete"}

GatedFixedFns == {"CreateBatch", "FindByIDs"}

GatedFns == GatedParamFns \cup GatedFixedFns

AggFn == "GetMinifigComplete"

ResultFns == {"BatchOperationWithResults", "ConcurrentFetch", "FindByIDs"}

\* the three sub-resources of GetMinifigComplete, in the order they are spawned
AggSources == <<"info", "subsets", "price">>

\* ---------------------------------------------------------------- errors
\* An error value: the chain of fmt.Errorf("...: %w") prefixes around a cause
\* raised in task `task`.  cause "nil" is the nil error.
NoErr == [chain |-> <<>>, cause |-> "nil", task |-> 0]

TaskError(cause, t) == [chain |-> <<>>, cause |-> cause, task |-> t]

Wrap(prefix, e) == [e EXCEPT !.chain = <<prefix>> \o @]

\* the wrapping a task function applies to its operation's error before it
\* returns it to the errgroup
TaskWrap(f, t, e) ==
    CASE f \in {"ConcurrentFetch"} -> Wrap("failed to fetch item", e)
      [] f \in {"FindByIDs"} -> Wrap("failed to fetch user", e)
      [] f = AggFn -> Wrap("failed to fetch minifig " \o AggSources[t], e)
      [] OTHER -> e

\* the wrapping the executor applies to g.Wait()'s error before it returns it
BatchWrap(f, e) ==
    CASE f = "BatchOperation" -> Wrap("batch operation failed", e)
      [] f = "BatchOperationWithResults" -> Wrap("batch operation with results failed", e)
      [] f = "BulkDelete" -> Wrap("bulk delete failed", e)
      [] OTHER -> e

\* the value the caller-supplied operation produces for an item; 0 is the
\* zero value (nil) of a result slot
OpResult(item) == item * 2

NilResult == 0

\* ======================================================================
\* BricklinkService.makeRequest and the OAuth1 signing helpers.
\*
\* A Go string is modelled as the sequence of its characters, each a
\* one-character string; bytes are compared through their ASCII code.  The
\* HMAC-SHA1 digest is not computed: it is an uninterpreted value naming the
\* key and the message it was computed from, carried as one symbol.
\* ======================================================================

\* ---------------------------------------------------------------- strings
\* the printable ASCII characters, from code 32 (space) to code 126 (~);
\* "grave" stands for the grave accent (code 96)
Ascii == 
    <<" ", "!", "\"", "#", "$", "%", "&", "'", "(", ")", "*", "+", ",", "-", ".", "/",
     "0", "1", "2", "3", "4", "5", "6", "7", "8", "9", ":", ";", "<", "=", ">", "?", "@",
     "A", "B", "C", "D", "E", "F", "G", "H", "I", "J", "K", "L", "M", "N", "O", "P", "Q",
         "R", "S", "T", "U", "V", "W", "X", "Y", "Z", "[", "\\", "]", "^", "_", "grave",
     "a", "b", "c", "d", "e", "f", "g", "h", "i", "j", "k", "l", "m", "n", "o", "p", "q",
         "r", "s", "t", "u", "v", "w", "x", "y", "z", "{", "|", "}", "~">>

CodeOf == [c \in {Ascii[i] : i \in 1..Len(Ascii)} |->
              31 + (CHOOSE i \in 1..Len(Ascii) : Ascii[i] = c)]

Code(c) == CodeOf[c]

Chr(n) == Ascii[n - 31]

\* a < b for Go strings (byte-wise lexicographic order)
RECURSIVE Less(_, _)
Less(a, b) ==
    IF Len(b) = 0 THEN FALSE
    ELSE IF Len(a) = 0 THEN TRUE
    ELSE IF a[1] = b[1] THEN Less(Tail(a), Tail(b))
    ELSE Code(a[1]) < Code(b[1])

RECURSIVE Insert(_, _)
Insert(x, s) ==
    IF Len(s) = 0 THEN <<x>>
    ELSE IF Less(x, s[1]) THEN <<x>> \o s
    ELSE <<s[1]>> \o Insert(x, Tail(s))

\* a list left in the order it was built in
Unsorted(s) == s

\* sort.Strings
RECURSIVE SortStrings(_)
SortStrings(s) ==
    IF Len(s) = 0 THEN <<>> ELSE Insert(s[1], SortStrings(Tail(s)))

\* strings.Join
RECURSIVE Join(_, _)
Join(strs, sep) ==
    IF Len(strs) = 0 THEN <<>>
    ELSE IF Len(strs) = 1 THEN strs[1]
    ELSE strs[1] \o sep \o Join(Tail(strs), sep)

\* the concatenation of a list of strings
RECURSIVE Concat(_)
Concat(strs) ==
    IF Len(strs) = 0 THEN <<>>
    ELSE IF Len(strs) = 1 THEN strs[1]
    ELSE LET h == Len(strs) \div 2
         IN  Concat(SubSeq(strs, 1, h)) \o Concat(SubSeq(strs, h + 1, Len(strs)))

\* strings.ToUpper on ASCII
UpperChar(c) ==
    IF Code(c) >= Code("a") /\ Code(c) <= Code("z") THEN Chr(Code(c) - 32) ELSE c

ToUpper(s) == [i \in 1..Len(s) |-> UpperChar(s[i])]

Digits == <<"0", "1", "2", "3", "4", "5", "6", "7", "8", "9">>

\* strconv.FormatInt(n, 10) for n >= 0
RECURSIVE FormatInt(_)
FormatInt(n) ==
    IF n < 10 THEN <<Digits[n + 1]>>
    ELSE FormatInt(n \div 10) \o <<Digits[(n % 10) + 1]>>

\* ------------------------------------------------------------ url escaping
UpperHex == <<"0", "1", "2", "3", "4", "5", "6", "7", "8", "9", "A", "B", "C", "D", "E", "F">>

IsAlnum(c) ==
    LET n == Code(c)
    IN  (n >= 48 /\ n <= 57) \/ (n >= 65 /\ n <= 90) \/ (n >= 97 /\ n <= 122)

Unreserved == {c \in DOMAIN CodeOf : IsAlnum(c)} \cup {"-", "_", ".", "~"}

\* url.QueryEscape of one character: unreserved characters stay, a space
\* becomes "+", every other byte becomes %XX.  The symbol of a base64 digest
\* becomes the symbol of its escaped form (its padding "=" is always escaped).
EscapeChar(c) ==
    IF c \in Unreserved THEN <<c>>
    ELSE IF c = " " THEN <<"+">>
    ELSE IF c \in DOMAIN CodeOf
         THEN <<"%", UpperHex[(Code(c) \div 16) + 1], UpperHex[(Code(c) % 16) + 1]>>
    ELSE <<"escaped(" \o c \o ")">>

QueryEscape(s) == Concat([i \in 1..Len(s) |-> EscapeChar(s[i])])

IsHex(c) == \E i \in 1..Len(UpperHex) : UpperChar(c) = UpperHex[i]

\* url.Parse accepts the URL: every "%" starts a %XX escape
ParsesAsURL(u) ==
    \A i \in 1..Len(u) :
        u[i] = "%" => (i + 2 <= Len(u) /\ IsHex(u[i + 1]) /\ IsHex(u[i + 2]))

\* ----------------------------------------------------------------- base64
StdEncoding == <<"A", "B", "C", "D", "E", "F", "G", "H", "I", "J", "K", "L", "M", "N",
    "O", "P", "Q", "R", "S", "T", "U", "V", "W", "X", "Y", "Z", "a", "b", "c", "d", "e",
    "f", "g", "h", "i", "j", "k", "l", "m", "n", "o", "p", "q", "r", "s", "t", "u", "v",
    "w", "x", "y", "z", "0", "1", "2", "3", "4", "5", "6", "7", "8", "9", "+", "/">>

\* one group of one to three bytes
EncodeGroup(b) ==
    LET n == Len(b)
        v == (b[1] * 65536) + ((IF n > 1 THEN b[2] ELSE 0) * 256)
                 + (IF n > 2 THEN b[3] ELSE 0)
    IN  <<StdEncoding[(v \div 262144) + 1],
          StdEncoding[((v \div 4096) % 64) + 1],
          IF n > 1 THEN StdEncoding[((v \div 64) % 64) + 1] ELSE "=",
          IF n > 2 THEN StdEncoding[(v % 64) + 1] ELSE "=">>

\* base64.StdEncoding.EncodeToString of a byte sequence
RECURSIVE EncodeToString(_)
EncodeToString(b) ==
    IF Len(b) = 0 THEN <<>>
    ELSE IF Len(b) <= 3 THEN EncodeGroup(b)
    ELSE EncodeGroup(SubSeq(b, 1, 3)) \o EncodeToString(SubSeq(b, 4, Len(b)))

\* hmac.New(sha1.New, key); mac.Write(msg); mac.Sum(nil): uninterpreted
HmacSha1(key, msg) == "hmac-sha1(" \o ToString(key) \o ", " \o ToString(msg) \o ")"

\* base64.StdEncoding.EncodeToString of a digest, as one symbol
EncodeDigest(d) == <<"base64(" \o d \o ")">>

\* ------------------------------------------------------------- the service
baseURL == <<"h", "t", "t", "p", "s", ":", "/", "/", "a", "p", "i", ".", "b", "r", "i",
    "c", "k", "l", "i", "n", "k", ".", "c", "o", "m", "/", "a", "p", "i", "/", "s", "t",
    "o", "r", "e", "/", "v", "1">>

\* s.credentials, with the defaults of LoadBricklinkConifg
SignatureMethod == <<"H", "M", "A", "C", "-", "S", "H", "A", "1">>

ConsumerKey == <<"c", "o", "n", "s", "u", "m", "e", "r", "_", "k", "e", "y">>

ConsumerSecret == <<"c", "o", "n", "s", "u", "m", "e", "r", "_", "s", "e", "c", "r", "e", "t">>

AccessToken == <<"a", "c", "c", "e", "s", "s", "_", "t", "o", "k", "e", "n">>

AccessTokenSecret == <<"a", "c", "c", "e", "s", "s", "_", "t", "o", "k", "e", "n", "_",
    "s", "e", "c", "r", "e", "t">>

oauth_consumer_key == <<"o", "a", "u", "t", "h", "_", "c", "o", "n", "s", "u", "m", "e",
    "r", "_", "k", "e", "y">>

oauth_token == <<"o", "a", "u", "t", "h", "_", "t", "o", "k", "e", "n">>

oauth_signature_method == <<"o", "a", "u", "t", "h", "_", "s", "i", "g", "n", "a", "t",
    "u", "r", "e", "_", "m", "e", "t", "h", "o", "d">>

oauth_timestamp == <<"o", "a", "u", "t", "h", "_", "t", "i", "m", "e", "s", "t", "a", "m", "p">>

oauth_nonce == <<"o", "a", "u", "t", "h", "_", "n", "o", "n", "c", "e">>

oauth_version == <<"o", "a", "u", "t", "h", "_", "v", "e", "r", "s", "i", "o", "n">>

oauth_signature == <<"o", "a", "u", "t", "h", "_", "s", "i", "g", "n", "a", "t", "u", "r", "e">>

OAuthVersion == <<"1", ".", "0">>

\* nonce := make([]byte, 16)
NonceLen == 16

ZeroNonce == [i \in 1..NonceLen |-> 0]

\* what a working random source can put into the nonce
Nonces == {[i \in 1..NonceLen |-> (i * 37) % 256]}

\* time.Now().Unix()
Timestamps == {1700000000, 1700000001}

\* ----------------------------------------------------------------- inputs
GET == <<"G", "E", "T">>

Methods == {GET, <<"g", "e", "t">>}

Endpoints == {<<"/", "i", "t", "e", "m", "s", "/", "M", "I", "N", "I", "F", "I", "G", "/",
    "s", "w", "0", "0", "1">>, <<"/", "i", "t", "e", "m", "s", "/", "M", "I", "N", "I",
    "F", "I", "G", "/", "%", "z", "z", "/", "p", "r", "i", "c", "e">>}

\* url.Values: a map from key to the list of its values
NoValues == [k \in {} |-> <<>>]

PriceParams ==
    [k \in {<<"n", "e", "w", "_", "o", "r", "_", "u", "s", "e", "d">>, <<"c", "u", "r",
        "r", "e", "n", "c", "y", "_", "c", "o", "d", "e">>} |->
        IF k = <<"n", "e", "w", "_", "o", "r", "_", "u", "s", "e",
            "d">> THEN <<<<"N">>>> ELSE <<<<"U", "S", "D">>>>]

MultiParams ==
    [k \in {<<"c", "o", "l", "o", "r">>, <<"a", " ", "b">>} |->
        IF k = <<"c", "o", "l", "o", "r">> THEN <<<<"1", "1">>, <<"2">>>> ELSE <<<<"x",
            "&", "y", "=", "z">>>>]

CollidingParams ==
    [k \in {oauth_nonce, <<"g", "u", "i", "d", "e", "_", "t", "y", "p", "e">>} |->
        IF k = oauth_nonce THEN <<<<"a", "b", "c">>>> ELSE <<<<"s", "o", "l", "d">>>>]

\* the params argument: nil (GetMinifigInfo, GetMinifigSubsets), empty, the
\* price parameters (GetMinifigPrice), and two further url.Values
ParamInputs ==
    {[isNil |-> TRUE, values |-> NoValues]}
    \cup {[isNil |-> FALSE, values |-> v] :
            v \in {NoValues, PriceParams, MultiParams, CollidingParams}}

\* the order in which one range statement visits a map's keys
IterOrders == {"ascending", "descending"}

Statuses == {200, 404}

Bodies == {"{\"meta\":{},\"data\":{}}", "{\"data\":7}", "<html>"}

Unmodified == "unmodified"

NoReqErr == [msg |-> "nil", status |-> 0, body |-> ""]

ReqError(m) == [msg |-> m, status |-> 0, body |-> ""]

\* fmt.Errorf("API error: status %d, body: %s", resp.StatusCode, string(body))
APIError(status, body) == [msg |-> "API error", status |-> status, body |-> body]

NoResp == [received |-> FALSE, status |-> 0, read |-> FALSE, body |-> ""]

VARIABLES
    method,         \* makeRequest's method argument
    endpoint,       \* its endpoint argument
    params,         \* its params argument: [isNil, values]
    randOk,         \* whether the random source works
    reqPc,          \* position inside makeRequest
    oauthParams,    \* the oauthParams map
    encodedParams,  \* signRequest's encodedParams
    signatureBase,  \* signRequest's signatureBase
    signedURL,      \* signRequest's first return value
    authorization,  \* the request's Authorization header
    doCalls,        \* calls of s.httpClient.Do made
    resp,           \* the response: [received, status, read, body]
    result,         \* the caller's result value
    reqErr,         \* what makeRequest returned
    shuffled        \* history: some range over a map did not run in
                    \* ascending key order

signVars == <<method, endpoint, params, randOk, reqPc, oauthParams,
              encodedParams, signatureBase, signedURL, authorization,
              doCalls, resp, result, reqErr, shuffled>>

signInputs == <<method, endpoint, params, randOk>>

\* nothing of makeRequest has run yet
Unsigned ==
    /\ oauthParams = NoValues
    /\ encodedParams = <<>>
    /\ signatureBase = <<>>
    /\ signedURL = <<>>
    /\ authorization = <<>>
    /\ doCalls = 0
    /\ resp = NoResp
    /\ result = Unmodified
    /\ reqErr = NoReqErr
    /\ shuffled = FALSE

\* no makeRequest call is followed
NoRequest ==
    /\ method = <<>>
    /\ endpoint = <<>>
    /\ params = [isNil |-> TRUE, values |-> NoValues]
    /\ randOk = TRUE
    /\ reqPc = "idle"
    /\ Unsigned

\* ----------------------------------------------- the batch executors
VARIABLES
    fn,             \* the function called
    items,          \* its input list (items / ids / users)
    maxConcurrency, \* its maxConcurrency argument (the gate's capacity)
    callerPc,       \* the caller goroutine's position
    spawned,        \* number of g.Go calls made so far
    pc,             \* pc[t]: position of the goroutine of item t
    sem,            \* number of tokens in the sem channel
    wg,             \* errgroup's wait-group counter
    gErr,           \* errgroup's err (set once)
    gCtxDone,       \* whether gCtx is cancelled
    taskErr,        \* taskErr[t]: what task t's function returns
    results,        \* the results slice
    ret,            \* what the call returned: [err, nilResults, results]
    fatal,          \* "none", or why the process died
    firstFailure,   \* history: the first failure that reached errOnce, or NoErr
    outOfOrder,     \* history: some task stored its result before an earlier one
    ctxDone,        \* whether the caller's ctx is cancelled
    mapWriters,     \* tasks inside an assignment to result.IndividualFetchTimeMs
    mapRaced,       \* whether two such assignments ever overlapped
    timings,        \* result.IndividualFetchTimeMs as a set of <<key, ms>>
    idOk,           \* whether baseURL + endpoint(minifigID) parses as a URL
    requests,       \* requests[t]: calls of s.httpClient.Do made by task t
    now,            \* the monotonic clock, in half milliseconds
    startTime,      \* startTime of GetMinifigComplete
    startedAt,      \* startedAt[t]: startInfo / startSubsets / startPrice
    elapsed,        \* elapsed[t]: time.Since(startX).Milliseconds() of task t
    inFlightAtCancel \* history: tasks whose HTTP exchange was pending when
                    \* the caller's ctx was cancelled

\* ------------------------------------------- BaseRepository.WithTransaction
VARIABLES
    txPc,           \* position inside WithTransaction
    stored,         \* the rows the database holds (committed)
    pending,        \* the rows fn wrote inside the open transaction
    fnResult,       \* how fn(tx) ended: "nil", "error" or "panic"
    commits,        \* calls of tx.Commit
    rollbacks,      \* calls of tx.Rollback
    txRet           \* what WithTransaction returned

txVars == <<txPc, stored, pending, fnResult, commits, rollbacks, txRet>>

\* no WithTransaction call is followed
TxIdle ==
    /\ txPc = "idle"
    /\ stored = {}
    /\ pending = {}
    /\ fnResult = "none"
    /\ commits = 0
    /\ rollbacks = 0
    /\ txRet = NoErr

\* ------------------------------------------ BaseRepository.ExecuteInBatches
VARIABLES
    ebPc,           \* position inside ExecuteInBatches
    ebItems,        \* its items argument
    batchSize,      \* its batchSize argument
    ebI,            \* the loop variable i
    batch,          \* the batch handed to processBatch
    covered,        \* history: the batches processed so far, concatenated
    ebRet           \* what ExecuteInBatches returned

ebVars == <<ebPc, ebItems, batchSize, ebI, batch, covered, ebRet>>

\* no ExecuteInBatches call is followed
ChunksIdle ==
    /\ ebPc = "idle"
    /\ ebItems = <<>>
    /\ batchSize = 0
    /\ ebI = 0
    /\ batch = <<>>
    /\ covered = <<>>
    /\ ebRet = NoErr

\* ------------------------------------------------- health.Service.CheckAll
VARIABLES
    checkers,       \* Service.checkers: the name of each checker, in order
    handlePc,       \* position of HealthHandler.Handle and of CheckAll in it
    checkPc,        \* position of each check goroutine
    checkStatus,    \* each goroutine's local status, what its checker reported
    mu,             \* the goroutine holding CheckAll's mutex, 0 for none
    healthWg,       \* the counter of CheckAll's WaitGroup
    services,       \* CheckAll's services map, checker name to status
    overallStatus,  \* Response.Status
    statusCode      \* the HTTP status Handle responds with, 0 before

healthVars ==
    <<checkers, handlePc, checkPc, checkStatus, mu, healthWg, services,
      overallStatus, statusCode>>

\* no health request is followed
HealthIdle ==
    /\ checkers = <<>>
    /\ handlePc = "idle"
    /\ checkPc = <<>>
    /\ checkStatus = <<>>
    /\ mu = 0
    /\ healthWg = 0
    /\ services = <<>>
    /\ overallStatus = "none"
    /\ statusCode = 0

\* ------------------------------------------- UserHandler and UserRepository
VARIABLES
    users,          \* the users table: id to row
    nextId,         \* the next value of the table's id sequence
    userReqs,       \* the HTTP requests in flight, each with its handler's locals
    lastWritten     \* history: per id, the hash of the last successful UpdatePassword

userVars == <<users, nextId, userReqs, lastWritten>>

\* no request to the user endpoints is followed
UsersIdle ==
    /\ users = <<>>
    /\ nextId = 1
    /\ userReqs = <<>>
    /\ lastWritten = <<>>

\* the variables of the other subsystems
svcVars == <<txVars, ebVars, healthVars, userVars>>

\* every subsystem but `own` is idle
SvcIdleBut(own) ==
    /\ IF own = "tx" THEN TRUE ELSE TxIdle
    /\ IF own = "eb" THEN TRUE ELSE ChunksIdle
    /\ IF own = "health" THEN TRUE ELSE HealthIdle
    /\ IF own = "user" THEN TRUE ELSE UsersIdle

\* the state of the batch executors and of GetMinifigComplete, but for fatal
execVars == <<fn, items, maxConcurrency, callerPc, spawned, pc, sem, wg, gErr,
              gCtxDone, taskErr, results, ret, firstFailure, outOfOrder,
              ctxDone, mapWriters, mapRaced, timings, idOk, requests, now,
              startTime, startedAt, elapsed, inFlightAtCancel>>

vars == <<execVars, fatal, signVars, svcVars>>

\* everything but fatal and txVars
txRest == <<execVars, signVars, ebVars, healthVars, userVars>>

\* everything but fatal and ebVars
ebRest == <<execVars, signVars, txVars, healthVars, userVars>>

\* everything but fatal and healthVars
healthRest == <<execVars, signVars, txVars, ebVars, userVars>>

\* everything but fatal and userVars
userRest == <<execVars, signVars, txVars, ebVars, healthVars>>

callVars == <<fn, items, maxConcurrency, idOk>>

reqVars == <<requests, now, startTime, startedAt, elapsed, inFlightAtCancel>>

mapVars == <<mapWriters, mapRaced, timings>>

histVars == <<firstFailure, outOfOrder>>

N == Len(items)

Tasks == 1..N

Alive == fatal = "none"

NoRet == [err |-> NoErr, nilResults |-> TRUE, results |-> <<>>, timings |-> {},
          total |-> 0]

\* ------------------------------------------------------------------ Init
\* the input lists: n distinct items (ids), in ascending or descending order
InputLists ==
    {[i \in 1..n |-> i] : n \in 0..MaxItems}
    \cup {[i \in 1..n |-> n + 1 - i] : n \in 0..MaxItems}

Calls ==
    {[fn |-> f, items |-> l, maxConcurrency |-> m, idOk |-> TRUE] :
        f \in GatedParamFns, l \in InputLists, m \in (0 - 1)..MaxConc}
    \cup {[fn |-> f, items |-> l, maxConcurrency |-> UserBatchConcurrency, idOk |-> TRUE] :
        f \in GatedFixedFns, l \in InputLists}
    \cup {[fn |-> AggFn, items |-> <<1, 2, 3>>, maxConcurrency |-> 0, idOk |-> b] :
        b \in BOOLEAN}

\* the state at the entry of call c
Started(c) ==
    /\ fn = c.fn
    /\ items = c.items
    /\ maxConcurrency = c.maxConcurrency
    /\ idOk = c.idOk
    /\ callerPc = "call"
    /\ spawned = 0
    /\ pc = [t \in 1..Len(items) |-> "unspawned"]
    /\ sem = 0
    /\ wg = 0
    /\ gErr = NoErr
    /\ gCtxDone = FALSE
    /\ taskErr = [t \in 1..Len(items) |-> NoErr]
    /\ results = [t \in 1..Len(items) |-> NilResult]
    /\ ret = NoRet
    /\ fatal = "none"
    /\ firstFailure = NoErr
    /\ outOfOrder = FALSE
    /\ ctxDone = FALSE
    /\ mapWriters = {}
    /\ mapRaced = FALSE
    /\ timings = {}
    /\ requests = [t \in 1..Len(items) |-> 0]
    /\ now = 0
    /\ startTime = 0
    /\ startedAt = [t \in 1..Len(items) |-> 0]
    /\ elapsed = [t \in 1..Len(items) |-> 0]
    /\ inFlightAtCancel = {}

Init ==
    /\ \E c \in Calls : Started(c)
    /\ NoRequest
    /\ SvcIdleBut("none")

\* ----------------------------------------------------------- environment
\* the caller's ctx is cancelled (or its deadline passes); gCtx is derived
\* from it and is cancelled with it
CancelCtx ==
    /\ Alive
    /\ callerPc \in {"spawn", "wait"}
    /\ ~ctxDone
    /\ ctxDone' = TRUE
    /\ gCtxDone' = TRUE
    /\ inFlightAtCancel' = {t \in Tasks : pc[t] = "inflight"}
    /\ UNCHANGED <<svcVars, signVars, callVars, callerPc, spawned, pc, sem, wg, gErr, taskErr,
                   results, ret, fatal, histVars, mapVars, requests, now,
                   startTime, startedAt, elapsed>>

\* time passes while GetMinifigComplete runs
Tick ==
    /\ Alive
    /\ fn = AggFn
    /\ callerPc \in {"spawn", "wait"}
    /\ now < MaxClock
    /\ now' = now + 1
    /\ UNCHANGED <<svcVars, signVars, callVars, callerPc, spawned, pc, sem, wg, gErr, gCtxDone,
                   taskErr, results, ret, fatal, histVars, ctxDone, mapVars,
                   requests, startTime, startedAt, elapsed, inFlightAtCancel>>

\* Duration.Milliseconds(): whole milliseconds of a span of clock readings
Milliseconds(d) == d \div 2

\* ---------------------------------------------------------------- caller
\* (variant: the executor has no early return for an empty list)
IsEmptyNever(l) == FALSE

\* len(items) == 0
IsEmpty(l) == Len(l) = 0

\* if len(items) == 0 { return nil }  /  return []T{}, nil
ReturnEmpty ==
    /\ Alive
    /\ callerPc = "call"
    /\ fn \in GatedFns
    /\ IsEmpty(items)
    /\ callerPc' = "returned"
    /\ ret' = [NoRet EXCEPT !.nilResults = fn \notin ResultFns]
    /\ UNCHANGED <<svcVars, signVars, callVars, spawned, pc, sem, wg, gErr, gCtxDone, taskErr,
                   results, fatal, histVars, ctxDone, mapVars, reqVars>>

\* g, gCtx := errgroup.WithContext(ctx); sem := make(chan struct{}, maxConcurrency)
\* make panics when the capacity is negative.
MakeGate ==
    /\ Alive
    /\ callerPc = "call"
    /\ fn \in GatedFns
    /\ ~IsEmpty(items)
    /\ callerPc' = IF maxConcurrency < 0 THEN "panicked" ELSE "spawn"
    /\ UNCHANGED <<svcVars, signVars, callVars, spawned, pc, sem, wg, gErr, gCtxDone, taskErr,
                   results, ret, fatal, histVars, ctxDone, mapVars, reqVars>>

\* startTime := time.Now(); result := &MinifigComplete{...}; g, gCtx := errgroup.WithContext(ctx)
AggStart ==
    /\ Alive
    /\ callerPc = "call"
    /\ fn = AggFn
    /\ callerPc' = "spawn"
    /\ startTime' = now
    /\ UNCHANGED <<svcVars, signVars, callVars, spawned, pc, sem, wg, gErr, gCtxDone, taskErr,
                   results, ret, fatal, histVars, ctxDone, mapVars, requests,
                   now, startedAt, elapsed, inFlightAtCancel>>

\* one g.Go(func() error {...}): wg.Add(1) and a new goroutine
Spawn ==
    /\ Alive
    /\ callerPc = "spawn"
    /\ spawned < N
    /\ spawned' = spawned + 1
    /\ wg' = wg + 1
    /\ pc' = [pc EXCEPT ![spawned + 1] = IF fn = AggFn THEN "call" ELSE "gate"]
    /\ callerPc' = IF spawned + 1 = N THEN "wait" ELSE "spawn"
    /\ UNCHANGED <<svcVars, signVars, callVars, sem, gErr, gCtxDone, taskErr, results, ret,
                   fatal, histVars, ctxDone, mapVars, reqVars>>

\* (variant: Wait also returns as soon as an error has been recorded)
WaitDoneOnError(counter, err) == counter = 0 \/ err # NoErr

\* g.Wait() returns once the wait-group counter is zero
WaitDone(counter, err) == counter = 0

\* (variant: the error of g.Wait() is dropped and the results are returned)
ReturnedIgnoringErr(f, err, res, tim, tot) ==
    [err |-> NoErr,
     nilResults |-> f \notin ResultFns \cup {AggFn},
     results |-> IF f \in ResultFns \cup {AggFn} THEN res ELSE <<>>,
     timings |-> IF f = AggFn THEN tim ELSE {},
     total |-> IF f = AggFn THEN tot ELSE 0]

\* (variant: on an error the results gathered so far are returned with it)
ReturnedPartial(f, err, res, tim, tot) ==
    [err |-> IF err # NoErr THEN BatchWrap(f, err) ELSE NoErr,
     nilResults |-> f \notin ResultFns \cup {AggFn},
     results |-> IF f \in ResultFns \cup {AggFn} THEN res ELSE <<>>,
     timings |-> IF f = AggFn THEN tim ELSE {},
     total |-> IF f = AggFn THEN tot ELSE 0]

\* what the executor returns after g.Wait()
Returned(f, err, res, tim, tot) ==
    IF err # NoErr
    THEN [err |-> BatchWrap(f, err), nilResults |-> TRUE, results |-> <<>>,
          timings |-> {}, total |-> 0]
    ELSE [err |-> NoErr,
          nilResults |-> f \notin ResultFns \cup {AggFn},
          results |-> IF f \in ResultFns \cup {AggFn} THEN res ELSE <<>>,
          timings |-> IF f = AggFn THEN tim ELSE {},
     total |-> IF f = AggFn THEN tot ELSE 0]

\* if err := g.Wait(); err != nil { return nil, wrap(err) }; return results, nil
\* (GetMinifigComplete: result.FetchTimeMs = time.Since(startTime).Milliseconds())
Wait ==
    /\ Alive
    /\ callerPc = "wait"
    /\ WaitDone(wg, gErr)
    /\ gCtxDone' = TRUE
    /\ ret' = Returned(fn, gErr, results, timings, Milliseconds(now - startTime))
    /\ callerPc' = "returned"
    /\ UNCHANGED <<svcVars, signVars, callVars, spawned, pc, sem, wg, gErr, taskErr, results,
                   fatal, histVars, ctxDone, mapVars, reqVars>>

\* ----------------------------------------------------------- gated tasks
\* (variant: the gate admits one task more than its capacity)
CanAcquireOffByOne(len, cap) == len <= cap

\* sem <- struct{}{} on a channel of capacity cap holding len tokens; with
\* capacity 0 the send needs a receiver, and nothing ever receives first
CanAcquire(len, cap) == len < cap

Acquire(t) ==
    /\ Alive
    /\ pc[t] = "gate"
    /\ CanAcquire(sem, maxConcurrency)
    /\ sem' = sem + 1
    /\ pc' = [pc EXCEPT ![t] = "running"]
    /\ UNCHANGED <<svcVars, signVars, callVars, callerPc, spawned, wg, gErr, gCtxDone, taskErr,
                   results, ret, fatal, histVars, ctxDone, mapVars, reqVars>>

\* the outcomes of a caller-supplied operation run on gCtx: a cancellation
\* error only when gCtx is cancelled
Outcomes(done) == {"ok", "failed", "panic"} \cup IF done THEN {"context canceled"} ELSE {}

\* history only: an earlier task has not stored its result yet
StoredLate(t) == \E u \in 1..(t - 1) : results[u] = NilResult

\* (variant: results = append(results, result), i.e. completion order)
StoreResultAppend(res, t, v) ==
    LET free == {i \in DOMAIN res : res[i] = NilResult}
        slot == CHOOSE i \in free : \A j \in free : i <= j
    IN  [res EXCEPT ![slot] = v]

\* results[i] = result
StoreResult(res, t, v) == [res EXCEPT ![t] = v]

\* result, err := operation(gCtx, item); if err != nil { return wrap(err) };
\* results[i] = result; return nil
Operation(t) ==
    /\ Alive
    /\ pc[t] = "running"
    /\ \E o \in Outcomes(gCtxDone) :
        /\ taskErr' = [taskErr EXCEPT ![t] =
                          IF o = "ok" THEN NoErr
                          ELSE IF o = "panic" THEN TaskError(o, t)
                          ELSE TaskWrap(fn, t, TaskError(o, t))]
        /\ results' = IF o = "ok" /\ fn \in ResultFns
                      THEN StoreResult(results, t, OpResult(items[t]))
                      ELSE results
        /\ outOfOrder' = (outOfOrder \/ (o = "ok" /\ fn \in ResultFns /\ StoredLate(t)))
    /\ pc' = [pc EXCEPT ![t] = "release"]
    /\ UNCHANGED <<svcVars, signVars, callVars, callerPc, spawned, sem, wg, gErr, gCtxDone, ret,
                   fatal, firstFailure, ctxDone, mapVars, reqVars>>

\* (variant: <-sem is a plain statement after the operation, skipped by a panic)
ReleasesUnlessPanic(e) == e.cause # "panic"

\* (variant: the slot is given back only after a successful operation)
ReleasesOnSuccess(e) == e = NoErr

\* whether the deferred func() { <-sem }() runs on the way out with outcome e
ReleasesOn(e) == TRUE

\* defer func() { <-sem }(): runs when the task function returns and also
\* while a panic unwinds it; a panic that leaves the goroutine ends the process
Release(t) ==
    /\ Alive
    /\ pc[t] = "release"
    /\ sem' = IF ReleasesOn(taskErr[t]) THEN sem - 1 ELSE sem
    /\ IF taskErr[t].cause = "panic"
       THEN /\ fatal' = "panic"
            /\ pc' = [pc EXCEPT ![t] = "dead"]
       ELSE /\ fatal' = fatal
            /\ pc' = [pc EXCEPT ![t] = "record"]
    /\ UNCHANGED <<svcVars, signVars, callVars, callerPc, spawned, wg, gErr, gCtxDone, taskErr,
                   results, ret, histVars, ctxDone, mapVars, reqVars>>

\* (variant: g.err = err without the Once, the last error is kept)
ErrOverwrite(cur, e) == e

\* g.errOnce.Do(func() { g.err = err; ... }): only the first error is kept
ErrOnce(cur, e) == IF cur = NoErr THEN e ELSE cur

\* the errgroup's wrapper around the task function: on a non-nil error
\* errOnce records it and cancels gCtx; then wg.Done()
Record(t) ==
    /\ Alive
    /\ pc[t] = "record"
    /\ IF taskErr[t] # NoErr
       THEN /\ gErr' = ErrOnce(gErr, taskErr[t])
            /\ gCtxDone' = TRUE
            /\ firstFailure' = IF firstFailure = NoErr THEN taskErr[t] ELSE firstFailure
            /\ UNCHANGED <<results, outOfOrder>>
       ELSE /\ results' = IF fn = AggFn
                          THEN StoreResult(results, t, OpResult(items[t]))
                          ELSE results
            /\ outOfOrder' = (outOfOrder \/ (fn = AggFn /\ StoredLate(t)))
            /\ UNCHANGED <<gErr, gCtxDone, firstFailure>>
    /\ wg' = wg - 1
    /\ pc' = [pc EXCEPT ![t] = IF taskErr[t] = NoErr THEN "done" ELSE "failed"]
    /\ taskErr' = [taskErr EXCEPT ![t] = NoErr]
    /\ UNCHANGED <<svcVars, signVars, callVars, callerPc, spawned, sem, ret, fatal, ctxDone, mapVars, reqVars>>

\* ----------------------------------------------- GetMinifigComplete tasks
\* startInfo := time.Now(); s.GetMinifigInfo(gCtx, minifigID) up to
\* s.httpClient.Do(req) in makeRequest: the request is signed and created;
\* http.NewRequestWithContext fails when the URL does not parse, and then
\* makeRequest returns without calling Do
SubCallSend(t) ==
    /\ Alive
    /\ pc[t] = "call"
    /\ startedAt' = [startedAt EXCEPT ![t] = now]
    /\ IF idOk
       THEN /\ requests' = [requests EXCEPT ![t] = @ + 1]
            /\ pc' = [pc EXCEPT ![t] = "inflight"]
            /\ taskErr' = taskErr
       ELSE /\ requests' = requests
            /\ pc' = [pc EXCEPT ![t] = "mapBegin"]
            /\ taskErr' = [taskErr EXCEPT ![t] =
                              TaskWrap(fn, t, TaskError("failed to create request", t))]
    /\ UNCHANGED <<svcVars, signVars, callVars, callerPc, spawned, sem, wg, gErr, gCtxDone,
                   results, ret, fatal, histVars, ctxDone, mapVars, now,
                   startTime, elapsed, inFlightAtCancel>>

\* (variant: the request is not bound to gCtx, e.g. http.NewRequest)
CallOutcomesUnbound(done) == {"ok", "failed"}

\* how the HTTP exchange of a request bound to gCtx can end: once gCtx is
\* cancelled, Do and the body read return an error
CallOutcomes(done) ==
    IF done THEN {"context canceled", "failed"} ELSE {"ok", "failed"}

\* (variant: a failed sub-call is issued again, once)
AfterCallRetry(o, sent) == IF o # "ok" /\ sent < 2 THEN "call" ELSE "mapBegin"

\* where the task continues after makeRequest returned with outcome o
AfterCall(o, sent) == "mapBegin"

\* resp, err := s.httpClient.Do(req) returns; body read, status check and
\* decoding; makeRequest and GetMinifigInfo return
SubCallFinish(t) ==
    /\ Alive
    /\ pc[t] = "inflight"
    /\ \E o \in CallOutcomes(gCtxDone) :
        /\ taskErr' = [taskErr EXCEPT ![t] =
                          IF o = "ok" THEN NoErr ELSE TaskWrap(fn, t, TaskError(o, t))]
        /\ pc' = [pc EXCEPT ![t] = AfterCall(o, requests[t])]
    /\ UNCHANGED <<svcVars, signVars, callVars, callerPc, spawned, sem, wg, gErr, gCtxDone,
                   results, ret, fatal, histVars, ctxDone, mapVars, reqVars>>

\* result.IndividualFetchTimeMs[key] = ... : entry into the map assignment.
\* The map is shared by the three goroutines and nothing guards it; when an
\* assignment is already in progress the runtime may detect it and end the
\* process ("fatal error: concurrent map writes"), or may not.
MapWriteBegin(t) ==
    /\ Alive
    /\ pc[t] = "mapBegin"
    /\ \/ /\ mapWriters' = mapWriters \cup {t}
          /\ mapRaced' = (mapRaced \/ mapWriters # {})
          /\ pc' = [pc EXCEPT ![t] = "mapEnd"]
          /\ elapsed' = [elapsed EXCEPT ![t] = Milliseconds(now - startedAt[t])]
          /\ startedAt' = [startedAt EXCEPT ![t] = 0]
          /\ fatal' = fatal
       \/ /\ mapWriters # {}
          /\ fatal' = "concurrent map writes"
          /\ UNCHANGED <<mapWriters, mapRaced, pc, elapsed, startedAt>>
    /\ UNCHANGED <<svcVars, signVars, callVars, callerPc, spawned, sem, wg, gErr, gCtxDone,
                   taskErr, results, ret, histVars, ctxDone, timings,
                   requests, now, startTime, inFlightAtCancel>>

\* the map assignment completes: the key is present afterwards, unless the
\* assignment raced with another one, which may lose it or end the process
MapWriteEnd(t) ==
    /\ Alive
    /\ pc[t] = "mapEnd"
    /\ mapWriters' = mapWriters \ {t}
    /\ \/ /\ timings' = timings \cup {<<AggSources[t], elapsed[t]>>}
          /\ pc' = [pc EXCEPT ![t] = "record"]
          /\ elapsed' = [elapsed EXCEPT ![t] = 0]
          /\ fatal' = fatal
       \/ /\ mapRaced
          /\ timings' = timings
          /\ pc' = [pc EXCEPT ![t] = "record"]
          /\ elapsed' = [elapsed EXCEPT ![t] = 0]
          /\ fatal' = fatal
       \/ /\ mapRaced
          /\ fatal' = "concurrent map writes"
          /\ UNCHANGED <<timings, pc, elapsed>>
    /\ UNCHANGED <<svcVars, signVars, callVars, callerPc, spawned, sem, wg, gErr, gCtxDone,
                   taskErr, results, ret, histVars, ctxDone, mapRaced,
                   requests, now, startTime, startedAt, inFlightAtCancel>>

\* ------------------------------------------------------- signing helpers
\* the keys of a map in ascending order
RECURSIVE SortedKeys(_)
SortedKeys(S) ==
    IF S = {} THEN <<>>
    ELSE LET k == CHOOSE x \in S : \A y \in S \ {x} : Less(x, y)
         IN  <<k>> \o SortedKeys(S \ {k})

Reverse(s) == [i \in 1..Len(s) |-> s[Len(s) + 1 - i]]

\* for k := range m: the keys in the order this range statement visits them
RangeKeys(m, order) ==
    IF order = "ascending" THEN SortedKeys(DOMAIN m)
    ELSE Reverse(SortedKeys(DOMAIN m))

\* m[k] = v
Put(m, k, v) == [x \in DOMAIN m \cup {k} |-> IF x = k THEN v ELSE m[x]]

Restrict(m, S) == [x \in DOMAIN m \cap S |-> m[x]]

OAuthNames ==
    {oauth_consumer_key, oauth_token, oauth_signature_method, oauth_timestamp,
     oauth_nonce, oauth_version}

generateOAuthParams(nonce, unix) ==
    [k \in OAuthNames |->
        CASE k = oauth_consumer_key -> ConsumerKey
          [] k = oauth_token -> AccessToken
          [] k = oauth_signature_method -> SignatureMethod
          [] k = oauth_timestamp -> FormatInt(unix)
          [] k = oauth_nonce -> EncodeToString(nonce)
          [] k = oauth_version -> OAuthVersion]

\* for k, v := range params { allParams[k] = v }
RECURSIVE CopyAll(_, _, _)
CopyAll(all, keys, p) ==
    IF Len(keys) = 0 THEN all
    ELSE CopyAll(Put(all, keys[1], p[keys[1]]), Tail(keys), p)

\* for k, v := range oauthParams { allParams.Set(k, v) }
RECURSIVE SetAll(_, _, _)
SetAll(all, keys, o) ==
    IF Len(keys) = 0 THEN all
    ELSE SetAll(Put(all, keys[1], <<o[keys[1]]>>), Tail(keys), o)

Pair(k, v) == QueryEscape(k) \o <<"=">> \o QueryEscape(v)

\* only the first value of a key
PairsOfFirst(k, vs) == <<Pair(k, vs[1])>>

\* for _, v := range params[k] { pairs = append(pairs, ...) }
PairsOf(k, vs) == [i \in 1..Len(vs) |-> Pair(k, vs[i])]

RECURSIVE AllPairs(_, _)
AllPairs(keys, p) ==
    IF Len(keys) = 0 THEN <<>>
    ELSE PairsOf(keys[1], p[keys[1]]) \o AllPairs(Tail(keys), p)

encodeParameters(p, order) ==
    Join(AllPairs(SortStrings(RangeKeys(p, order)), p), <<"&">>)

\* url.Values.Encode: key=value pairs sorted by key
Encode(p) == Join(AllPairs(SortedKeys(DOMAIN p), p), <<"&">>)

SignatureBase(m, u, ep) ==
    QueryEscape(m) \o <<"&">> \o QueryEscape(u) \o <<"&">> \o QueryEscape(ep)

SigningKey == QueryEscape(ConsumerSecret) \o <<"&">> \o QueryEscape(AccessTokenSecret)

\* the map left as generateOAuthParams built it
WithoutSignature(o, signature) == o

\* oauthParams["oauth_signature"] = signature: the caller's map is changed
WithSignature(o, signature) == Put(o, oauth_signature, signature)

signRequest(m, u, p, o, order1, order2, order3) ==
    LET allParams == SetAll(CopyAll(NoValues, RangeKeys(p, order1), p),
                            RangeKeys(o, order2), o)
        ep == encodeParameters(allParams, order3)
        base == SignatureBase(m, u, ep)
        signature == EncodeDigest(HmacSha1(SigningKey, base))
    IN  [encodedParams |-> ep,
         signatureBase |-> base,
         oauthParams |-> WithSignature(o, signature),
         signedURL |-> IF DOMAIN p # {} THEN u \o <<"?">> \o Encode(p) ELSE u,
         err |-> NoReqErr]

OAuthScheme == <<"O", "A", "u", "t", "h", " ">>

buildAuthHeader(o, order) ==
    LET keys == RangeKeys(o, order)
        pairs == [i \in 1..Len(keys) |->
                     QueryEscape(keys[i]) \o <<"=", "\"">>
                         \o QueryEscape(o[keys[i]]) \o <<"\"">>]
    IN  OAuthScheme \o Join(SortStrings(pairs), <<",", " ">>)

\* net/http's validMethod: a non-empty token ("" stands for GET)
TokenChars ==
    {c \in DOMAIN CodeOf : IsAlnum(c)}
    \cup {"!", "#", "$", "%", "&", "'", "*", "+", "-", ".", "^", "_", "grave", "|", "~"}

ValidMethod(m) == \A i \in 1..Len(m) : m[i] \in TokenChars

\* json.Unmarshal(body, result): a syntax error leaves the result alone, a
\* value of the wrong shape is reported after the fields before it were set
Unmarshal(body, old) ==
    CASE body = "{\"meta\":{},\"data\":{}}" ->
            [result |-> "decoded", err |-> NoReqErr]
      [] body = "{\"data\":7}" ->
            [result |-> "partly decoded", err |-> ReqError("failed to decode response")]
      [] OTHER ->
            [result |-> old, err |-> ReqError("failed to decode response")]

\* params == nil is replaced by an empty url.Values
Values(p) == IF p.isNil THEN NoValues ELSE p.values

fullURL == baseURL \o endpoint

\* ------------------------------------------------------------ makeRequest
\* oauthParams := s.generateOAuthParams().  A failing random source is not
\* looked at: rand.Read's error is dropped and the nonce buffer keeps its
\* zero bytes; with a Go release whose crypto/rand never returns an error
\* the process is aborted instead.
GenerateOAuth ==
    /\ Alive
    /\ reqPc = "start"
    /\ \/ /\ \E nonce \in (IF randOk THEN Nonces ELSE {ZeroNonce}),
               unix \in Timestamps :
               oauthParams' = generateOAuthParams(nonce, unix)
          /\ reqPc' = "sign"
          /\ UNCHANGED fatal
       \/ /\ ~randOk
          /\ fatal' = "crypto/rand: failed to read random data"
          /\ UNCHANGED <<oauthParams, reqPc>>
    /\ UNCHANGED <<svcVars, execVars, signInputs, encodedParams, signatureBase,
                   signedURL, authorization, doCalls, resp, result, reqErr,
                   shuffled>>

\* signedURL, err := s.signRequest(method, fullURL, params, oauthParams)
Sign ==
    /\ Alive
    /\ reqPc = "sign"
    /\ \E order1 \in IterOrders, order2 \in IterOrders, order3 \in IterOrders :
        LET s == signRequest(method, fullURL, Values(params), oauthParams,
                             order1, order2, order3)
        IN  /\ encodedParams' = s.encodedParams
            /\ signatureBase' = s.signatureBase
            /\ oauthParams' = s.oauthParams
            /\ signedURL' = s.signedURL
            /\ shuffled' = (shuffled \/ {order1, order2, order3} # {"ascending"})
            /\ IF s.err # NoReqErr
               THEN /\ reqErr' = ReqError("failed to sign request")
                    /\ reqPc' = "done"
               ELSE /\ reqPc' = "create"
                    /\ UNCHANGED reqErr
    /\ UNCHANGED <<svcVars, execVars, fatal, signInputs, authorization, doCalls, resp,
                   result>>

\* req, err := http.NewRequestWithContext(ctx, method, signedURL, nil)
NewRequest ==
    /\ Alive
    /\ reqPc = "create"
    /\ IF ValidMethod(method) /\ ParsesAsURL(signedURL)
       THEN /\ reqPc' = "header"
            /\ UNCHANGED reqErr
       ELSE /\ reqErr' = ReqError("failed to create request")
            /\ reqPc' = "done"
    /\ UNCHANGED <<svcVars, execVars, fatal, signInputs, oauthParams, encodedParams,
                   signatureBase, signedURL, authorization, doCalls, resp,
                   result, shuffled>>

\* req.Header.Set("Authorization", s.buildAuthHeader(oauthParams))
SetHeaders ==
    /\ Alive
    /\ reqPc = "header"
    /\ \E order \in IterOrders :
        /\ authorization' = buildAuthHeader(oauthParams, order)
        /\ shuffled' = (shuffled \/ order # "ascending")
    /\ reqPc' = "do"
    /\ UNCHANGED <<svcVars, execVars, fatal, signInputs, oauthParams, encodedParams,
                   signatureBase, signedURL, doCalls, resp, result, reqErr>>

\* resp, err := s.httpClient.Do(req)
Do ==
    /\ Alive
    /\ reqPc = "do"
    /\ doCalls' = doCalls + 1
    /\ \/ /\ reqErr' = ReqError("request failed")
          /\ reqPc' = "done"
          /\ UNCHANGED resp
       \/ /\ \E status \in Statuses :
               resp' = [received |-> TRUE, status |-> status, read |-> FALSE,
                        body |-> ""]
          /\ reqPc' = "read"
          /\ UNCHANGED reqErr
    /\ UNCHANGED <<svcVars, execVars, fatal, signInputs, oauthParams, encodedParams,
                   signatureBase, signedURL, authorization, result, shuffled>>

\* body, err := io.ReadAll(resp.Body)
ReadAll ==
    /\ Alive
    /\ reqPc = "read"
    /\ \/ /\ reqErr' = ReqError("failed to read response")
          /\ reqPc' = "done"
          /\ UNCHANGED resp
       \/ /\ \E body \in Bodies :
               resp' = [resp EXCEPT !.read = TRUE, !.body = body]
          /\ reqPc' = "status"
          /\ UNCHANGED reqErr
    /\ UNCHANGED <<svcVars, execVars, fatal, signInputs, oauthParams, encodedParams,
                   signatureBase, signedURL, authorization, doCalls, result,
                   shuffled>>

\* a status check that lets every response through
RejectsNone(status) == FALSE

\* resp.StatusCode != http.StatusOK
RejectsStatus(status) == status # 200

\* the status check, then json.Unmarshal(body, result), then return
CheckAndDecode ==
    /\ Alive
    /\ reqPc = "status"
    /\ IF RejectsStatus(resp.status)
       THEN /\ reqErr' = APIError(resp.status, resp.body)
            /\ UNCHANGED result
       ELSE LET d == Unmarshal(resp.body, result)
            IN  /\ result' = d.result
                /\ reqErr' = d.err
    /\ reqPc' = "done"
    /\ UNCHANGED <<svcVars, execVars, fatal, signInputs, oauthParams, encodedParams,
                   signatureBase, signedURL, authorization, doCalls, resp,
                   shuffled>>

\* no batch executor is running
NoExecutor == [fn |-> "none", items |-> <<>>, maxConcurrency |-> 0, idOk |-> TRUE]

\* one call of makeRequest on its own
NoCall == [fn |-> "makeRequest", items |-> <<>>, maxConcurrency |-> 0, idOk |-> TRUE]

InitReq ==
    /\ Started(NoCall)
    /\ method \in Methods
    /\ endpoint \in Endpoints
    /\ params \in ParamInputs
    /\ randOk \in BOOLEAN
    /\ reqPc = "start"
    /\ Unsigned
    /\ SvcIdleBut("none")

NextReq ==
    \/ GenerateOAuth
    \/ Sign
    \/ NewRequest
    \/ SetHeaders
    \/ Do
    \/ ReadAll
    \/ CheckAndDecode

SpecReq == InitReq /\ [][NextReq]_vars

\* ------------------------------------------------------------------ Next
Next ==
    \/ CancelCtx
    \/ ReturnEmpty
    \/ MakeGate
    \/ AggStart
    \/ Spawn
    \/ Wait
    \/ \E t \in Tasks : Acquire(t)
    \/ \E t \in Tasks : Operation(t)
    \/ \E t \in Tasks : Release(t)
    \/ \E t \in Tasks : Record(t)
    \/ \E t \in Tasks : SubCallSend(t)
    \/ \E t \in Tasks : SubCallFinish(t)
    \/ \E t \in Tasks : MapWriteBegin(t)
    \/ \E t \in Tasks : MapWriteEnd(t)

\* one call of any of the executors; the clock is not observed (it stands still)
Spec == Init /\ [][Next]_vars

\* one call of GetMinifigComplete with time passing
InitAgg == Init /\ fn = AggFn

NextAgg ==
    \/ CancelCtx
    \/ Tick
    \/ AggStart
    \/ Spawn
    \/ Wait
    \/ \E t \in Tasks : SubCallSend(t)
    \/ \E t \in Tasks : SubCallFinish(t)
    \/ \E t \in Tasks : MapWriteBegin(t)
    \/ \E t \in Tasks : MapWriteEnd(t)
    \/ \E t \in Tasks : Record(t)

SpecAgg == InitAgg /\ [][NextAgg]_vars

\* ======================================================================
\* BaseRepository.WithTransaction
\* ======================================================================
\* the rows fn may write
TxRows == 1..MaxRows

\* what the database may hold before the call
StoredBefore == {{}, {0}}

\* fn's error
FnError == TaskError("fn failed", 0)

\* tx, err := r.db.Begin(ctx)
Begin ==
    /\ Alive
    /\ txPc = "begin"
    /\ \/ /\ txPc' = "fn"
          /\ UNCHANGED txRet
       \/ /\ txRet' = Wrap("failed to begin transaction", TaskError("begin failed", 0))
          /\ txPc' = "done"
    /\ UNCHANGED <<txRest, fatal, stored, pending, fnResult, commits, rollbacks>>

\* fn(tx) executes one statement on tx
FnStatement ==
    /\ Alive
    /\ txPc = "fn"
    /\ \E row \in TxRows \ (stored \cup pending) : pending' = pending \cup {row}
    /\ UNCHANGED <<txRest, fatal, txPc, stored, fnResult, commits, rollbacks, txRet>>

\* without the deferred recover a panic of fn leaves WithTransaction at once
NextAfterFnNoRecover(r) ==
    CASE r = "nil" -> "commit"
      [] r = "error" -> "rollback"
      [] OTHER -> "panicked"

\* where WithTransaction goes when fn(tx) ended with r: to tx.Commit, to the
\* tx.Rollback of the error branch, or into the deferred recover()
NextAfterFn(r) ==
    CASE r = "nil" -> "commit"
      [] r = "error" -> "rollback"
      [] OTHER -> "recover"

\* fn(tx) returns nil or an error, or panics
FnEnds ==
    /\ Alive
    /\ txPc = "fn"
    /\ \E r \in {"nil", "error", "panic"} :
        /\ fnResult' = r
        /\ txPc' = NextAfterFn(r)
    /\ UNCHANGED <<txRest, fatal, stored, pending, commits, rollbacks, txRet>>

\* if err := fn(tx); err != nil { tx.Rollback(ctx) ...; return err }
Rollback ==
    /\ Alive
    /\ txPc = "rollback"
    /\ rollbacks' = rollbacks + 1
    /\ \/ /\ pending' = {}
          /\ txRet' = FnError
       \/ /\ txRet' = Wrap("transaction error (rollback also failed)", FnError)
          /\ UNCHANGED pending
    /\ txPc' = "done"
    /\ UNCHANGED <<txRest, fatal, stored, fnResult, commits>>

\* the deferred func: recover(), tx.Rollback(ctx) (a failure is only
\* logged), panic(p)
Recover ==
    /\ Alive
    /\ txPc = "recover"
    /\ rollbacks' = rollbacks + 1
    /\ \/ pending' = {}
       \/ UNCHANGED pending
    /\ txPc' = "panicked"
    /\ UNCHANGED <<txRest, fatal, stored, fnResult, commits, txRet>>

\* if err := tx.Commit(ctx); err != nil { return ... }; return nil
Commit ==
    /\ Alive
    /\ txPc = "commit"
    /\ commits' = commits + 1
    /\ \/ /\ stored' = stored \cup pending
          /\ pending' = {}
          /\ UNCHANGED txRet
       \/ /\ txRet' = Wrap("failed to commit transaction", TaskError("commit failed", 0))
          /\ UNCHANGED <<stored, pending>>
    /\ txPc' = "done"
    /\ UNCHANGED <<txRest, fatal, fnResult, rollbacks>>

\* one call of WithTransaction, on a database that may hold a row already
InitTx ==
    /\ Started(NoExecutor)
    /\ NoRequest
    /\ SvcIdleBut("tx")
    /\ txPc = "begin"
    /\ stored \in StoredBefore
    /\ pending = {}
    /\ fnResult = "none"
    /\ commits = 0
    /\ rollbacks = 0
    /\ txRet = NoErr

NextTx ==
    \/ Begin
    \/ FnStatement
    \/ FnEnds
    \/ Rollback
    \/ Recover
    \/ Commit

SpecTx == InitTx /\ [][NextTx]_vars

\* ======================================================================
\* BaseRepository.ExecuteInBatches
\* ======================================================================
\* if len(items) == 0 { return nil }; i := 0
EbStart ==
    /\ Alive
    /\ ebPc = "call"
    /\ ebPc' = IF Len(ebItems) = 0 THEN "done" ELSE "loop"
    /\ UNCHANGED <<ebRest, fatal, ebItems, batchSize, ebI, batch, covered, ebRet>>

\* end := i + batchSize; if end > len(items) { end = len(items) }
ChunkEnd(i, size, len) == IF i + size > len THEN len ELSE i + size

\* i < len(items); end := ...; batch := items[i:end].  The slice expression
\* panics when end < i.
EbSlice ==
    /\ Alive
    /\ ebPc = "loop"
    /\ IF ebI < Len(ebItems)
       THEN LET end == ChunkEnd(ebI, batchSize, Len(ebItems))
            IN  IF end < ebI
                THEN /\ fatal' = "slice bounds out of range"
                     /\ UNCHANGED <<ebPc, batch>>
                ELSE /\ batch' = SubSeq(ebItems, ebI + 1, end)
                     /\ ebPc' = "process"
                     /\ UNCHANGED fatal
       ELSE /\ ebPc' = "done"
            /\ UNCHANGED <<fatal, batch>>
    /\ UNCHANGED <<ebRest, ebItems, batchSize, ebI, covered, ebRet>>

\* a loop that moves on by one item
NextIndexByOne(i, size) == i + 1

\* i += batchSize
NextIndex(i, size) == i + size

\* processBatch(ctx, batch): on an error ExecuteInBatches returns it wrapped
EbProcess ==
    /\ Alive
    /\ ebPc = "process"
    /\ \/ /\ covered' = covered \o batch
          /\ ebI' = NextIndex(ebI, batchSize)
          /\ ebPc' = "loop"
          /\ UNCHANGED ebRet
       \/ /\ ebRet' = Wrap("failed to process batch", TaskError("failed", ebI))
          /\ ebPc' = "done"
          /\ UNCHANGED <<covered, ebI>>
    /\ UNCHANGED <<ebRest, fatal, ebItems, batchSize, batch>>

InitChunks ==
    /\ Started(NoExecutor)
    /\ NoRequest
    /\ SvcIdleBut("eb")
    /\ ebPc = "call"
    /\ ebItems \in InputLists
    /\ batchSize \in (0 - 1)..MaxBatch
    /\ ebI = 0
    /\ batch = <<>>
    /\ covered = <<>>
    /\ ebRet = NoErr

NextChunks ==
    \/ EbStart
    \/ EbSlice
    \/ EbProcess

\* one call of ExecuteInBatches
SpecChunks == InitChunks /\ [][NextChunks]_vars

\* the same, with the goroutine that runs it scheduled again and again
SpecChunksFair == SpecChunks /\ WF_vars(NextChunks)

\* ======================================================================
\* HealthHandler.Handle and health.Service.CheckAll
\* ======================================================================
\* the names of the checkers the server registers
CheckerNames == {"postgres", "redis", "application"}

\* what Checker.Check reports in Status.Status
Reports == {"healthy", "unhealthy"}

CheckerLists == UNION {[1..n -> CheckerNames] : n \in 0..MaxCheckers}

\* for _, checker := range s.checkers { wg.Add(1); go func(checker Checker) {...}(checker) }
HealthSpawn ==
    /\ handlePc = "spawn"
    /\ IF \E i \in DOMAIN checkPc : checkPc[i] = "none"
       THEN LET i == CHOOSE j \in DOMAIN checkPc :
                        /\ checkPc[j] = "none"
                        /\ \A k \in 1..(j - 1) : checkPc[k] # "none"
            IN  /\ healthWg' = healthWg + 1
                /\ checkPc' = [checkPc EXCEPT ![i] = "check"]
                /\ UNCHANGED handlePc
       ELSE /\ handlePc' = "wait"
            /\ UNCHANGED <<healthWg, checkPc>>
    /\ UNCHANGED <<healthRest, fatal, checkers, checkStatus, mu, services,
                   overallStatus, statusCode>>

\* status := checker.Check(ctx)
Check(i) ==
    /\ checkPc[i] = "check"
    /\ \E r \in Reports : checkStatus' = [checkStatus EXCEPT ![i] = r]
    /\ checkPc' = [checkPc EXCEPT ![i] = "lock"]
    /\ UNCHANGED <<healthRest, fatal, checkers, handlePc, mu, healthWg,
                   services, overallStatus, statusCode>>

\* mu.Lock()
Lock(i) ==
    /\ checkPc[i] = "lock"
    /\ mu = 0
    /\ mu' = i
    /\ checkPc' = [checkPc EXCEPT ![i] = "store"]
    /\ UNCHANGED <<healthRest, fatal, checkers, handlePc, checkStatus, healthWg,
                   services, overallStatus, statusCode>>

\* services[checker.Name()] = status; mu.Unlock()
Store(i) ==
    /\ checkPc[i] = "store"
    /\ services' = Put(services, checkers[i], checkStatus[i])
    /\ mu' = 0
    /\ checkPc' = [checkPc EXCEPT ![i] = "exit"]
    /\ UNCHANGED <<healthRest, fatal, checkers, handlePc, checkStatus, healthWg,
                   overallStatus, statusCode>>

\* defer wg.Done()
Done(i) ==
    /\ checkPc[i] = "exit"
    /\ healthWg' = healthWg - 1
    /\ checkPc' = [checkPc EXCEPT ![i] = "done"]
    /\ UNCHANGED <<healthRest, fatal, checkers, handlePc, checkStatus, mu,
                   services, overallStatus, statusCode>>

\* a Wait that does not block
WgNoWait(n) == TRUE

\* wg.Wait() returns when the counter is zero
WgZero(n) == n = 0

\* wg.Wait(); overallStatus := "healthy"; for _, status := range services {...}
Overall ==
    /\ handlePc = "wait"
    /\ WgZero(healthWg)
    /\ overallStatus' =
          IF \E name \in DOMAIN services : services[name] # "healthy"
          THEN "unhealthy" ELSE "healthy"
    /\ handlePc' = "respond"
    /\ UNCHANGED <<healthRest, fatal, checkers, checkPc, checkStatus, mu, healthWg,
                   services, statusCode>>

\* statusCode := http.StatusOK; if healthResponse.Status != "healthy" {...};
\* response.JSON(res, statusCode, healthResponse)
Respond ==
    /\ handlePc = "respond"
    /\ statusCode' = IF overallStatus # "healthy" THEN 503 ELSE 200
    /\ handlePc' = "done"
    /\ UNCHANGED <<healthRest, fatal, checkers, checkPc, checkStatus, mu, healthWg,
                   services, overallStatus>>

InitHealth ==
    /\ Started(NoExecutor)
    /\ NoRequest
    /\ SvcIdleBut("health")
    /\ checkers \in CheckerLists
    /\ handlePc = "spawn"
    /\ checkPc = [i \in DOMAIN checkers |-> "none"]
    /\ checkStatus = [i \in DOMAIN checkers |-> "none"]
    /\ mu = 0
    /\ healthWg = 0
    /\ services = <<>>
    /\ overallStatus = "none"
    /\ statusCode = 0

NextHealth ==
    \/ HealthSpawn
    \/ \E i \in DOMAIN checkers : Check(i)
    \/ \E i \in DOMAIN checkers : Lock(i)
    \/ \E i \in DOMAIN checkers : Store(i)
    \/ \E i \in DOMAIN checkers : Done(i)
    \/ Overall
    \/ Respond

\* one request to the health endpoint
SpecHealth == InitHealth /\ [][NextHealth]_vars

\* ======================================================================
\* UserHandler (CreateUser, GetUser, UpdateUser, ListUsers, SearchUsers,
\* UpdatePassword) over UserRepository and the users table
\* ======================================================================
\* a password, with its length in bytes
Password(text, bytes) == [text |-> text, bytes |-> bytes]

NoPassword == Password("", 0)

\* bcrypt.GenerateFromPassword: a hash of the password; for more than 72
\* bytes ErrPasswordTooLong, or with older releases of the package a hash of
\* the first 72 bytes
HashError == "error"

Hash(p) == "bcrypt(" \o p.text \o ")"

GenerateFromPassword(p) == IF p.bytes > 72 THEN {HashError, Hash(p)} ELSE {Hash(p)}

\* bcrypt.CompareHashAndPassword(hash, password) == nil
CompareHashAndPassword(hash, p) == hash = Hash(p)

\* models.User; FirstName stands for FirstName and LastName, which take the
\* same way through every handler
User(id, username, hash, first) ==
    [ID |-> id, Username |-> username, PasswordHash |-> hash, FirstName |-> first]

NoUser == User(0, "", "", <<>>)

\* the table row of a models.User
Row(u) ==
    [username |-> u.Username, password_hash |-> u.PasswordHash,
     first_name |-> u.FirstName]

\* what Scan makes of row id
Scan(id) ==
    User(id, users[id].username, users[id].password_hash, users[id].first_name)

\* username VARCHAR(50) UNIQUE NOT NULL: another row holds the name
UniqueViolation(username, id) ==
    \E other \in DOMAIN users : other # id /\ users[other].username = username

\* SELECT EXISTS(SELECT 1 FROM users WHERE username = $1)
UsernameExists(username) == \E id \in DOMAIN users : users[id].username = username

\* a models.User as encoding/json writes it: PasswordHash has no name in its
\* tag and omitempty
EncodeUser(u) ==
    LET base == [id |-> u.ID, username |-> u.Username, first_name |-> u.FirstName]
    IN  IF u.PasswordHash = "" THEN base
        ELSE [k \in DOMAIN base \cup {"PasswordHash"} |->
                 IF k = "PasswordHash" THEN u.PasswordHash ELSE base[k]]

\* toUserResponse and the encoding of dto.UserResponse
toUserResponse(u) ==
    [id |-> u.ID, username |-> u.Username, first_name |-> u.FirstName,
     full_name |-> u.FirstName]

\* response.JSON(w, code, data), data being a list of JSON objects
JSON(code, objects) == [code |-> code, error |-> "", objects |-> objects]

\* response.Error(w, code, message)
Error(code, message) == [code |-> code, error |-> message, objects |-> <<>>]

\* w.WriteHeader(http.StatusNoContent)
NoContent == [code |-> 204, error |-> "", objects |-> <<>>]

\* the request writes a response and its handler goes on at pc
Reply(rq, answer, at) ==
    [rq EXCEPT !.responses = Append(@, answer), !.pc = at]

\* the same after a database call failed for want of a connection or of time
ReplyDown(rq, answer) ==
    [Reply(rq, answer, "done") EXCEPT !.dbFailed = TRUE]

\* first_name ILIKE '%term%'
ILike(name, term) ==
    \E i \in 0..(Len(name) - Len(term)) :
        ToUpper(SubSeq(name, i + 1, i + Len(term))) = ToUpper(term)

\* the ids of a set, highest first (ORDER BY created_at DESC)
RECURSIVE Descending(_)
Descending(ids) ==
    IF ids = {} THEN <<>>
    ELSE LET top == CHOOSE i \in ids : \A j \in ids : j <= i
         IN  <<top>> \o Descending(ids \ {top})

\* ---- the requests followed
Ann == <<"A", "n", "n">>
Bea == <<"B", "e", "a">>
Short1 == Password("pw1", 3)
Short2 == Password("pw2", 3)
Long == Password("long", 73)

Input(handler, decodes, id, username, password, newPassword, first, q) ==
    [handler |-> handler, decodes |-> decodes, id |-> id, username |-> username,
     password |-> password, newPassword |-> newPassword, first_name |-> first,
     q |-> q]

CreateInputs ==
    <<Input("CreateUser", TRUE, 0, "ann", Short1, NoPassword, Ann, <<>>),
      Input("CreateUser", TRUE, 0, "ann", Long, NoPassword, Ann, <<>>),
      Input("CreateUser", TRUE, 0, "bob", Short2, NoPassword, Bea, <<>>),
      Input("CreateUser", TRUE, 0, "", Short1, NoPassword, Ann, <<>>),
      Input("CreateUser", FALSE, 0, "", NoPassword, NoPassword, <<>>, <<>>)>>

UpdateInputs ==
    <<Input("UpdateUser", TRUE, 1, "ann", NoPassword, NoPassword, Bea, <<>>),
      Input("UpdateUser", TRUE, 1, "bob", NoPassword, NoPassword, Ann, <<>>),
      Input("UpdateUser", FALSE, 1, "", NoPassword, NoPassword, <<>>, <<>>)>>

PasswordInputs ==
    <<Input("UpdatePassword", TRUE, 1, "", Short1, Short2, <<>>, <<>>),
      Input("UpdatePassword", TRUE, 1, "", Short2, Short1, <<>>, <<>>),
      Input("UpdatePassword", TRUE, 1, "", Short1, Long, <<>>, <<>>),
      Input("UpdatePassword", FALSE, 1, "", NoPassword, NoPassword, <<>>, <<>>)>>

ReadInputs ==
    <<Input("GetUser", TRUE, 1, "", NoPassword, NoPassword, <<>>, <<>>),
      Input("ListUsers", TRUE, 0, "", NoPassword, NoPassword, <<>>, <<>>),
      Input("SearchUsers", TRUE, 0, "", NoPassword, NoPassword, <<>>, <<"a">>),
      Input("SearchUsers", TRUE, 0, "", NoPassword, NoPassword, <<>>, <<>>)>>

UserInputs == CreateInputs \o UpdateInputs \o PasswordInputs \o ReadInputs

\* the table before the requests: empty, or with the user ann
UsersBefore == {<<>>, <<Row(User(1, "ann", Hash(Short1), Ann))>>}

Handles(r, handler, at) ==
    /\ userReqs[r].in.handler = handler
    /\ userReqs[r].pc = at

\* ---- CreateUser
\* Decode, the validation and userRepo.UsernameExists
CreateCheckExists(r) ==
    LET req == userReqs[r]
        in == req.in
    IN  /\ Handles(r, "CreateUser", "start")
        /\ IF \/ ~in.decodes
              \/ in.username = "" \/ in.password.text = "" \/ in.first_name = <<>>
           THEN userReqs' = [userReqs EXCEPT ![r] =
                    Reply(req, Error(400, "Invalid request body"), "done")]
           ELSE \/ userReqs' = [userReqs EXCEPT ![r] =
                       ReplyDown(req, Error(500, "Failed to check username existence"))]
                \/ userReqs' = [userReqs EXCEPT ![r] =
                       IF UsernameExists(in.username)
                       THEN Reply(req, Error(400, "Username already exists"), "done")
                       ELSE [req EXCEPT !.pc = "insert"]]
        /\ UNCHANGED <<userRest, fatal, users, nextId, lastWritten>>

\* bcrypt.GenerateFromPassword, whose failure is answered without a return,
\* then userRepo.Create and the response
CreateInsert(r) ==
    LET req == userReqs[r]
        in == req.in
    IN  /\ Handles(r, "CreateUser", "insert")
        /\ \E hashedPassword \in GenerateFromPassword(in.password) :
              LET hashed ==
                      IF hashedPassword = HashError
                      THEN Reply(req, Error(500, "Failed to hash password"), "insert")
                      ELSE req
                  user == User(0, in.username,
                               IF hashedPassword = HashError THEN "" ELSE hashedPassword,
                               in.first_name)
                  created == [user EXCEPT !.ID = nextId]
              IN  \/ /\ userReqs' = [userReqs EXCEPT ![r] =
                            ReplyDown(hashed, Error(500, "Failed to create user"))]
                     /\ UNCHANGED <<users, nextId>>
                  \/ /\ UniqueViolation(in.username, 0)
                     /\ userReqs' = [userReqs EXCEPT ![r] =
                            Reply(hashed, Error(500, "Failed to create user"), "done")]
                     /\ UNCHANGED <<users, nextId>>
                  \/ /\ ~UniqueViolation(in.username, 0)
                     /\ users' = Put(users, nextId, Row(created))
                     /\ nextId' = nextId + 1
                     /\ userReqs' = [userReqs EXCEPT ![r] =
                            [Reply(hashed, JSON(201, <<EncodeUser(created)>>), "done")
                                EXCEPT !.user = created]]
        /\ UNCHANGED <<userRest, fatal, lastWritten>>

\* ---- GetUser
GetUser(r) ==
    LET req == userReqs[r]
        id == req.in.id
    IN  /\ Handles(r, "GetUser", "start")
        /\ \/ userReqs' = [userReqs EXCEPT ![r] =
                  ReplyDown(req, Error(404, "User not found"))]
           \/ userReqs' = [userReqs EXCEPT ![r] =
                  IF id \in DOMAIN users
                  THEN Reply(req, JSON(200, <<toUserResponse(Scan(id))>>), "done")
                  ELSE Reply(req, Error(404, "User not found"), "done")]
        /\ UNCHANGED <<userRest, fatal, users, nextId, lastWritten>>

\* ---- UpdateUser
\* Decode, userRepo.FindByID and the new field values
UpdateFind(r) ==
    LET req == userReqs[r]
        in == req.in
    IN  /\ Handles(r, "UpdateUser", "start")
        /\ IF ~in.decodes
           THEN userReqs' = [userReqs EXCEPT ![r] =
                    Reply(req, Error(400, "Invalid request body"), "done")]
           ELSE \/ userReqs' = [userReqs EXCEPT ![r] =
                       ReplyDown(req, Error(404, "User not found"))]
                \/ userReqs' = [userReqs EXCEPT ![r] =
                       IF in.id \in DOMAIN users
                       THEN [req EXCEPT
                                !.user = [Scan(in.id) EXCEPT
                                             !.Username = in.username,
                                             !.FirstName = in.first_name],
                                !.pc = "write"]
                       ELSE Reply(req, Error(404, "User not found"), "done")]
        /\ UNCHANGED <<userRest, fatal, users, nextId, lastWritten>>

\* userRepo.Update, which sets every column from the user read before, and
\* the response
UpdateWrite(r) ==
    LET req == userReqs[r]
        user == req.user
    IN  /\ Handles(r, "UpdateUser", "write")
        /\ \/ /\ userReqs' = [userReqs EXCEPT ![r] =
                     ReplyDown(req, Error(500, "Failed to update user"))]
              /\ UNCHANGED users
           \/ /\ UniqueViolation(user.Username, user.ID)
              /\ userReqs' = [userReqs EXCEPT ![r] =
                     Reply(req, Error(500, "Failed to update user"), "done")]
              /\ UNCHANGED users
           \/ /\ ~UniqueViolation(user.Username, user.ID)
              /\ users' = [users EXCEPT ![user.ID] = Row(user)]
              /\ userReqs' = [userReqs EXCEPT ![r] =
                     Reply(req, JSON(200, <<toUserResponse(user)>>), "done")]
        /\ UNCHANGED <<userRest, fatal, nextId, lastWritten>>

\* ---- ListUsers
\* userRepo.List, userRepo.Count and the response
ListUsers(r) ==
    LET req == userReqs[r]
        ids == Descending(DOMAIN users)
    IN  /\ Handles(r, "ListUsers", "start")
        /\ \/ userReqs' = [userReqs EXCEPT ![r] =
                  ReplyDown(req, Error(500, "Failed to list users"))]
           \/ userReqs' = [userReqs EXCEPT ![r] =
                  Reply(req, JSON(200, [i \in DOMAIN ids |-> toUserResponse(Scan(ids[i]))]),
                        "done")]
        /\ UNCHANGED <<userRest, fatal, users, nextId, lastWritten>>

\* ---- SearchUsers
SearchUsers(r) ==
    LET req == userReqs[r]
        q == req.in.q
        ids == Descending({id \in DOMAIN users : ILike(users[id].first_name, q)})
    IN  /\ Handles(r, "SearchUsers", "start")
        /\ IF q = <<>>
           THEN userReqs' = [userReqs EXCEPT ![r] =
                    Reply(req, Error(400, "Search term is required"), "done")]
           ELSE \/ userReqs' = [userReqs EXCEPT ![r] =
                       ReplyDown(req, Error(500, "Failed to search users"))]
                \/ userReqs' = [userReqs EXCEPT ![r] =
                       Reply(req, JSON(200, [i \in DOMAIN ids |->
                                                toUserResponse(Scan(ids[i]))]),
                             "done")]
        /\ UNCHANGED <<userRest, fatal, users, nextId, lastWritten>>

\* ---- UpdatePassword
\* Decode, userRepo.FindByID, the old password's check and the new hash
PasswordFind(r) ==
    LET req == userReqs[r]
        in == req.in
    IN  /\ Handles(r, "UpdatePassword", "start")
        /\ IF ~in.decodes
           THEN userReqs' = [userReqs EXCEPT ![r] =
                    Reply(req, Error(400, "Invalid request body"), "done")]
           ELSE \/ userReqs' = [userReqs EXCEPT ![r] =
                       ReplyDown(req, Error(404, "User not found"))]
                \/ /\ in.id \notin DOMAIN users
                   /\ userReqs' = [userReqs EXCEPT ![r] =
                          Reply(req, Error(404, "User not found"), "done")]
                \/ /\ in.id \in DOMAIN users
                   /\ \E newHash \in GenerateFromPassword(in.newPassword) :
                         userReqs' = [userReqs EXCEPT ![r] =
                             IF ~CompareHashAndPassword(Scan(in.id).PasswordHash,
                                                        in.password)
                             THEN Reply(req, Error(401, "Invalid old password"), "done")
                             ELSE IF newHash = HashError
                             THEN Reply(req, Error(500, "Failed to hash password"), "done")
                             ELSE [req EXCEPT !.user = Scan(in.id),
                                              !.newHash = newHash,
                                              !.pc = "write"]]
        /\ UNCHANGED <<userRest, fatal, users, nextId, lastWritten>>

\* userRepo.UpdatePassword and the response
PasswordWrite(r) ==
    LET req == userReqs[r]
        id == req.in.id
    IN  /\ Handles(r, "UpdatePassword", "write")
        /\ \/ /\ userReqs' = [userReqs EXCEPT ![r] =
                     ReplyDown(req, Error(500, "Failed to update password"))]
              /\ UNCHANGED <<users, lastWritten>>
           \/ /\ users' = [users EXCEPT ![id].password_hash = req.newHash]
              /\ lastWritten' = Put(lastWritten, id, req.newHash)
              /\ userReqs' = [userReqs EXCEPT ![r] = Reply(req, NoContent, "done")]
        /\ UNCHANGED <<userRest, fatal, nextId>>

\* a request as it arrives
Arrived(in) ==
    [in |-> in, pc |-> "start", user |-> NoUser, newHash |-> "",
     responses |-> <<>>, dbFailed |-> FALSE]

\* the requests are interchangeable, so they are taken in the order of
\* UserInputs
InitUsers ==
    /\ Started(NoExecutor)
    /\ NoRequest
    /\ SvcIdleBut("user")
    /\ users \in UsersBefore
    /\ nextId = Len(users) + 1
    /\ \E pick \in [1..MaxRequests -> DOMAIN UserInputs] :
          /\ \A r \in 1..(MaxRequests - 1) : pick[r] <= pick[r + 1]
          /\ userReqs = [r \in 1..MaxRequests |-> Arrived(UserInputs[pick[r]])]
    /\ lastWritten = <<>>

NextUsers ==
    \/ \E r \in DOMAIN userReqs : CreateCheckExists(r)
    \/ \E r \in DOMAIN userReqs : CreateInsert(r)
    \/ \E r \in DOMAIN userReqs : GetUser(r)
    \/ \E r \in DOMAIN userReqs : UpdateFind(r)
    \/ \E r \in DOMAIN userReqs : UpdateWrite(r)
    \/ \E r \in DOMAIN userReqs : ListUsers(r)
    \/ \E r \in DOMAIN userReqs : SearchUsers(r)
    \/ \E r \in DOMAIN userReqs : PasswordFind(r)
    \/ \E r \in DOMAIN userReqs : PasswordWrite(r)

\* concurrent requests to the user endpoints
SpecUsers == InitUsers /\ [][NextUsers]_vars

\* ======================================================================
\* the batch executors under fair scheduling
\* ======================================================================
\* one call of BatchOperation, BatchOperationWithResults, ConcurrentFetch or
\* BulkDelete; the order of the items' values plays no part in its scheduling
InitFair ==
    /\ Init
    /\ fn \in GatedParamFns
    /\ items = [i \in 1..Len(items) |-> i]

\* a step of the caller or of one of its goroutines
ExecutorStep ==
    \/ ReturnEmpty
    \/ MakeGate
    \/ Spawn
    \/ Wait
    \/ \E t \in Tasks : Acquire(t)
    \/ \E t \in Tasks : Operation(t)
    \/ \E t \in Tasks : Release(t)
    \/ \E t \in Tasks : Record(t)

NextFair ==
    \/ CancelCtx
    \/ ExecutorStep

\* the Go scheduler runs a goroutine that can take a step; the caller's
\* context is cancelled or not
SpecFair == InitFair /\ [][NextFair]_vars /\ WF_vars(ExecutorStep)

\* ------------------------------------------------------------ properties
Terminal == {"done", "failed"}

\* tasks between acquiring a gate slot and releasing it
Holding == {t \in Tasks : pc[t] \in {"running", "release"}}

Failed == {t \in Tasks : pc[t] = "failed"}

GateFull == ~CanAcquire(sem, maxConcurrency)

\* C1: during GetMinifigComplete no two tasks are ever inside a write to the
\* same memory location at once, and the process never dies of a concurrent
\* map write.
C1_NoUnsynchronizedSharedWrite ==
    fn = AggFn => (Cardinality(mapWriters) <= 1 /\ fatal # "concurrent map writes")

\* C2: with maxConcurrency = N >= 1 (N = 10 in CreateBatch and FindByIDs), at
\* most N tasks hold the admission gate at any time.
C2_GateBound ==
    (fn \in GatedFns /\ maxConcurrency >= 1) => Cardinality(Holding) <= maxConcurrency

C2_Witness ==
    /\ fn \in GatedParamFns
    /\ maxConcurrency >= 1
    /\ Cardinality(Holding) = maxConcurrency
    /\ \E t \in Tasks : pc[t] = "gate"

\* C3: a batch executor called with a non-empty list and maxConcurrency <= 0
\* returns an invalid-argument error without starting any task: once past its
\* entry it has returned that error and no task was spawned.
C3_InvalidArgumentError ==
    (fn \in GatedParamFns /\ N > 0 /\ maxConcurrency <= 0 /\ callerPc # "call")
        => /\ callerPc = "returned"
           /\ ret.err.cause = "invalid argument"
           /\ \A t \in Tasks : pc[t] = "unspawned"

\* C4: when a batch with failed tasks returns, its error is the (wrapped)
\* error of the failure that was recorded first.
C4_FirstErrorWins ==
    (callerPc = "returned" /\ firstFailure # NoErr)
        => ret.err = BatchWrap(fn, firstFailure)

C4_Witness ==
    /\ callerPc = "returned"
    /\ Cardinality(Failed) >= 2
    /\ ret.err = BatchWrap(fn, firstFailure)
    /\ firstFailure.cause = "failed"

\* C5: GetMinifigComplete returns a non-nil composite exactly when all three
\* sub-calls succeeded, then with the three values and no error; otherwise it
\* returns an error and a nil composite.
C5_AllOrNothing ==
    (fn = AggFn /\ callerPc = "returned")
        => /\ ~ret.nilResults <=> (\A t \in Tasks : pc[t] = "done")
           /\ ret.nilResults => (ret.err # NoErr /\ ret.results = <<>>)
           /\ ~ret.nilResults =>
                 /\ ret.err = NoErr
                 /\ \A t \in Tasks : ret.results[t] = OpResult(items[t])

C5_Witness ==
    /\ fn = AggFn
    /\ callerPc = "returned"
    /\ pc[3] = "failed"
    /\ pc[1] = "done"
    /\ results[1] # NilResult
    /\ ret.nilResults

\* C6: when a task of a result-collecting batch failed, the batch returns a
\* non-nil error and no results, whatever the siblings produced.
C6_NoResultsOnFailure ==
    (fn \in ResultFns /\ callerPc = "returned" /\ Failed # {})
        => (ret.err # NoErr /\ ret.nilResults /\ ret.results = <<>>)

C6_Witness ==
    /\ fn \in ResultFns
    /\ callerPc = "returned"
    /\ Failed # {}
    /\ \E t \in Tasks : pc[t] = "done" /\ results[t] # NilResult
    /\ ret.nilResults

\* C7: a result-collecting batch that succeeds returns one result per input,
\* results[i] being the operation's value for input i, in any completion order.
C7_ResultsAlignedWithInput ==
    (fn \in ResultFns /\ callerPc = "returned" /\ ret.err = NoErr)
        => /\ Len(ret.results) = N
           /\ \A i \in 1..N : ret.results[i] = OpResult(items[i])

C7_Witness ==
    /\ fn \in ResultFns
    /\ callerPc = "returned"
    /\ ret.err = NoErr
    /\ N >= 2
    /\ outOfOrder

\* C8: when a batch executor returns, every task it spawned is terminal.
C8_NoTaskOutlivesReturn ==
    callerPc = "returned" => \A t \in Tasks : pc[t] \in Terminal

C8_Witness ==
    /\ callerPc = "returned"
    /\ ret.err # NoErr
    /\ N >= 2
    /\ \E t \in Tasks : pc[t] = "done"

\* C9: once a task of a gated batch has failed, no task waiting at the gate is
\* held there by a sibling that occupies the slot (it would have to wait for
\* that sibling's release before it can end).
C9_PromptCancellationAtGate ==
    (fn \in GatedFns /\ maxConcurrency >= 1 /\ gErr # NoErr)
        => \A t \in Tasks : pc[t] = "gate" => ~GateFull

\* C10: the number of held gate slots equals the number of tasks between
\* acquire and release, on every path (a panicking task included), and is
\* zero when the batch returns.
C10_SlotsMatchHolders ==
    fn \in GatedFns
        => /\ sem = Cardinality(Holding)
           /\ callerPc = "returned" => sem = 0

\* C11: a batch executor called with an empty list returns at once, whatever
\* maxConcurrency is: no error, a non-nil empty result list where results are
\* collected, no gate created (so no panic of make), no task spawned.
C11_EmptyInputReturnsEmpty ==
    (fn \in GatedFns /\ N = 0 /\ callerPc # "call")
        => /\ callerPc = "returned"
           /\ ret.err = NoErr
           /\ ret.results = <<>>
           /\ fn \in ResultFns => ~ret.nilResults
           /\ spawned = 0 /\ wg = 0 /\ sem = 0

C11_Witness ==
    /\ fn = "ConcurrentFetch"
    /\ N = 0
    /\ maxConcurrency < 0
    /\ callerPc = "returned"
    /\ ~ret.nilResults

\* tasks of GetMinifigComplete whose makeRequest has returned
AfterMakeRequest ==
    {t \in Tasks : pc[t] \in {"mapBegin", "mapEnd", "record", "done", "failed"}}

\* C14 (as stated): whenever the caller's context is cancelled while
\* GetMinifigComplete runs, the call returns an error and no composite.
C14_CancelMeansError ==
    (fn = AggFn /\ callerPc = "returned" /\ ctxDone)
        => (ret.err # NoErr /\ ret.nilResults)

\* C14 (amended): every sub-call whose HTTP exchange was pending when the
\* caller's context was cancelled ends with an error, and if there was one,
\* GetMinifigComplete returns an error and no composite.
C14_CancelReachesInFlight ==
    fn = AggFn =>
        /\ \A t \in inFlightAtCancel :
              /\ pc[t] \in {"mapBegin", "mapEnd", "record"} => taskErr[t] # NoErr
              /\ pc[t] \in Terminal => pc[t] = "failed"
        /\ (inFlightAtCancel # {} /\ callerPc = "returned")
              => (ret.err # NoErr /\ ret.nilResults)

C14_Witness ==
    /\ fn = AggFn
    /\ callerPc = "returned"
    /\ inFlightAtCancel # {}
    /\ \E t \in Tasks \ inFlightAtCancel : pc[t] = "done"
    /\ ret.err.cause = "context canceled"
    /\ ret.nilResults

\* C15 (as stated): every sub-call of GetMinifigComplete makes exactly one
\* HTTP round trip, never more.
C15_ExactlyOneRoundTrip ==
    fn = AggFn =>
        \A t \in Tasks :
            /\ requests[t] <= 1
            /\ t \in AfterMakeRequest => requests[t] = 1

\* C15 (amended): every sub-call makes at most one HTTP round trip, failed or
\* not: exactly one when its request could be created, none when it could not.
C15_AtMostOneRequest ==
    fn = AggFn =>
        \A t \in Tasks :
            /\ requests[t] <= 1
            /\ t \in AfterMakeRequest => requests[t] = IF idOk THEN 1 ELSE 0

C15_Witness ==
    /\ fn = AggFn
    /\ idOk
    /\ callerPc = "returned"
    /\ Failed # {}
    /\ \A t \in Tasks : requests[t] = 1

\* C20: a successful GetMinifigComplete returns a timing for each of the
\* three sources, each non-negative and none above the total elapsed time.
C20_TimingsComplete ==
    (fn = AggFn /\ callerPc = "returned" /\ ret.err = NoErr)
        => /\ {p[1] : p \in ret.timings} = {"info", "subsets", "price"}
           /\ \A p \in ret.timings : p[2] >= 0 /\ ret.total >= p[2]

C10_Witness ==
    /\ fn \in GatedFns
    /\ \E t \in Tasks : pc[t] = "dead"
    /\ \E t \in Tasks : pc[t] = "failed"
    /\ sem = Cardinality(Holding)

\* ------------------------------------------------ properties: makeRequest
PastSigning == reqPc \notin {"idle", "start", "sign"}

SigningFailure == ReqError("failed to sign request")

\* oauthParams as generateOAuthParams returned it
GeneratedParams == Restrict(oauthParams, OAuthNames)

\* C12: signing fails if and only if the random source fails: then makeRequest
\* returns a signing failure and sends no HTTP request; with a working
\* random source signing succeeds, whatever the query parameters are.
C12_SigningFailsIffRandomFails ==
    /\ PastSigning => ((reqErr = SigningFailure) <=> ~randOk)
    /\ ~randOk => doCalls = 0

\* C13 as stated: every response with a status other than 200 ends in an
\* error carrying the status code and the raw body, and the caller's result
\* is left unmodified.
C13_Non200YieldsAPIError ==
    (reqPc = "done" /\ resp.received /\ resp.status # 200)
        => (reqErr = APIError(resp.status, resp.body) /\ result = Unmodified)

\* C13, amended: every response with a status other than 200 whose body
\* could be read ends in an error carrying the status code and the raw body;
\* the body is not decoded and the caller's result is left unmodified.
C13_StatusCheckedBeforeDecode ==
    (reqPc = "done" /\ resp.read /\ resp.status # 200)
        => (reqErr = APIError(resp.status, resp.body) /\ result = Unmodified)

C13_Witness ==
    /\ reqPc = "done"
    /\ resp.read
    /\ resp.status = 404
    /\ resp.body = "{\"meta\":{},\"data\":{}}"
    /\ reqErr = APIError(404, resp.body)
    /\ result = Unmodified

\* C16: signing is deterministic: whatever order the range statements
\* visited the maps in, the signature (with the base string and the
\* parameter string it was computed from) and the Authorization header are
\* the ones the same method, URL, parameters, credentials, nonce and
\* timestamp give under ascending iteration, so any two runs agree.
C16_SigningDeterministic ==
    /\ PastSigning =>
        LET s == signRequest(method, fullURL, Values(params), GeneratedParams,
                             "ascending", "ascending", "ascending")
        IN  /\ oauthParams = s.oauthParams
            /\ signatureBase = s.signatureBase
            /\ encodedParams = s.encodedParams
    /\ Len(authorization) > 0 =>
        authorization = buildAuthHeader(oauthParams, "ascending")

C16_Witness ==
    /\ reqPc = "do"
    /\ shuffled
    /\ Cardinality(DOMAIN Values(params)) > 1

\* the seven OAuth parameters, by ascending name
SevenNames ==
    <<oauth_consumer_key, oauth_nonce, oauth_signature, oauth_signature_method,
      oauth_timestamp, oauth_token, oauth_version>>

HeaderPair(k) ==
    QueryEscape(k) \o <<"=", "\"">> \o QueryEscape(oauthParams[k]) \o <<"\"">>

\* C17: the Authorization header of a request that was sent is "OAuth "
\* followed by the key="value" pairs of exactly the seven OAuth parameters in
\* ascending name order, and its oauth_signature is the signature of the base
\* string built from the nonce and the timestamp the header carries.
C17_HeaderCarriesSignature ==
    doCalls > 0 =>
        /\ \A i \in 1..(Len(SevenNames) - 1) : Less(SevenNames[i], SevenNames[i + 1])
        /\ DOMAIN oauthParams = {SevenNames[i] : i \in 1..Len(SevenNames)}
        /\ authorization =
               OAuthScheme \o Join([i \in 1..Len(SevenNames) |-> HeaderPair(SevenNames[i])],
                                   <<",", " ">>)
        /\ oauthParams[oauth_signature] =
               EncodeDigest(HmacSha1(SigningKey, signatureBase))
        /\ signatureBase =
               signRequest(method, fullURL, Values(params), GeneratedParams,
                           "ascending", "ascending", "ascending").signatureBase

C17_Witness ==
    /\ doCalls = 1
    /\ Len(authorization) > 0
    /\ method = GET
    /\ randOk

CountOf(c, s) == Cardinality({i \in 1..Len(s) : s[i] = c})

\* C18: the signature base string is three '&'-joined segments: the method
\* in upper case, the escaped base URL and the escaped parameter string.
C18_BaseStringUpperCasesMethod ==
    PastSigning =>
        /\ signatureBase =
               ToUpper(method) \o <<"&">> \o QueryEscape(fullURL) \o <<"&">>
                   \o QueryEscape(encodedParams)
        /\ CountOf("&", signatureBase) = 2

\* the pairs of key k: its query values in their order, then its OAuth value
ExpectedPairsOf(k, p, o) ==
    (IF k \in DOMAIN p THEN [i \in 1..Len(p[k]) |-> Pair(k, p[k][i])] ELSE <<>>)
        \o (IF k \in DOMAIN o THEN <<Pair(k, o[k])>> ELSE <<>>)

RECURSIVE ExpectedPairs(_, _, _)
ExpectedPairs(keys, p, o) ==
    IF Len(keys) = 0 THEN <<>>
    ELSE ExpectedPairsOf(keys[1], p, o) \o ExpectedPairs(Tail(keys), p, o)

\* every pair of query parameters p and OAuth parameters o, by ascending key
ParameterString(p, o) ==
    Join(ExpectedPairs(SortedKeys(DOMAIN p \cup DOMAIN o), p, o), <<"&">>)

\* C19 as stated: the signed parameter string holds every OAuth parameter
\* and every query parameter once per value, as escaped key=value pairs
\* joined by '&', by ascending key, a key's values in their original order.
C19_EveryParameterSigned ==
    PastSigning => encodedParams = ParameterString(Values(params), GeneratedParams)

\* C19, amended: the same, for every OAuth parameter and every query
\* parameter whose key is not the name of an OAuth parameter; the values of
\* a query parameter named like an OAuth parameter are not signed.
C19_NonCollidingParametersSigned ==
    PastSigning =>
        encodedParams =
            ParameterString(Restrict(Values(params), DOMAIN Values(params) \ OAuthNames),
                            GeneratedParams)

C19_Witness ==
    /\ PastSigning
    /\ Values(params) = MultiParams
    /\ Len(encodedParams) > 0

\* -------------------------------------------- properties: WithTransaction
TxEnded == txPc \in {"done", "panicked"}

\* C21: WithTransaction ends every transaction it began exactly once: Commit
\* is called if and only if fn returned nil, Rollback if and only if fn
\* returned an error or panicked, never both; fn's error is returned to the
\* caller and a panic is re-raised after the rollback.  Nothing fn wrote is
\* stored unless the commit succeeded.
C21_TransactionEndedOnce ==
    /\ commits + rollbacks <= 1
    /\ (TxEnded /\ fnResult # "none") =>
        /\ commits + rollbacks = 1
        /\ commits = 1 <=> fnResult = "nil"
        /\ rollbacks = 1 <=> fnResult \in {"error", "panic"}
        /\ fnResult = "error" => (txPc = "done" /\ txRet.cause = FnError.cause)
        /\ fnResult = "panic" <=> txPc = "panicked"
    /\ (fnResult = "none" \/ ~TxEnded) => commits + rollbacks = 0
    /\ commits = 0 => stored \in StoredBefore

C21_Witness ==
    /\ txPc = "panicked"
    /\ rollbacks = 1
    /\ commits = 0
    /\ Cardinality(pending) + Cardinality(stored) > 1

\* ------------------------------------------- properties: ExecuteInBatches
IsPrefix(s, t) == Len(s) <= Len(t) /\ s = SubSeq(t, 1, Len(s))

\* the chunk that follows the ones processed so far
NextChunk ==
    SubSeq(ebItems, Len(covered) + 1,
           IF Len(covered) + batchSize > Len(ebItems) THEN Len(ebItems)
           ELSE Len(covered) + batchSize)

\* C22: with batchSize >= 1 processBatch is called, one call at a time, on
\* consecutive disjoint chunks in input order, each of length batchSize but
\* for a possibly shorter last one; a call that returns nil has processed
\* the whole input; at the first failing chunk that error is returned and no
\* later chunk is processed.
C22_ConsecutiveChunks ==
    batchSize >= 1 =>
        /\ IsPrefix(covered, ebItems)
        /\ (Len(covered) % batchSize = 0) \/ covered = ebItems
        /\ ebPc \in {"process", "done"} /\ Len(ebItems) > 0 =>
            /\ Len(batch) >= 1
            /\ Len(batch) = batchSize \/ covered \o batch = ebItems \/ covered = ebItems
        /\ ebPc = "process" => batch = NextChunk
        /\ (ebPc = "done" /\ ebRet = NoErr) => covered = ebItems
        /\ (ebPc = "done" /\ ebRet # NoErr) =>
            /\ covered # ebItems
            /\ batch = NextChunk
            /\ ebRet = Wrap("failed to process batch", TaskError("failed", Len(covered)))
        /\ fatal = "none"

C22_Witness ==
    /\ ebPc = "done"
    /\ ebRet = NoErr
    /\ batchSize >= 2
    /\ Len(ebItems) > batchSize
    /\ Len(ebItems) % batchSize # 0
    /\ covered = ebItems

\* C29: ExecuteInBatches returns for every input list and every batchSize,
\* batchSize <= 0 included: it does not loop forever and does not fail with
\* an out-of-range slice.
C29_Terminates == <>(ebPc = "done")

\* --------------------------------------------------- properties: CheckAll
\* CheckAll has returned
CheckAllReturned == handlePc \in {"respond", "done"}

AllCompleted == \A i \in DOMAIN checkers : checkPc[i] = "done"

AllReportedHealthy == \A i \in DOMAIN checkers : checkStatus[i] = "healthy"

DistinctNames ==
    \A i, j \in DOMAIN checkers : checkers[i] = checkers[j] => i = j

\* CheckAll returns after every checker completed, and the answer is
\* "healthy" with 200 exactly when every checker reported healthy
WaitsAndAggregates ==
    /\ CheckAllReturned => AllCompleted
    /\ CheckAllReturned =>
          /\ overallStatus \in {"healthy", "unhealthy"}
          /\ overallStatus = "healthy" <=> AllReportedHealthy
    /\ handlePc = "done" =>
          /\ statusCode \in {200, 503}
          /\ statusCode = 200 <=> AllReportedHealthy

Handled(r, handler) == Handles(r, handler, "done")

IsError(answer) == answer.code >= 400

\* C24: UpdateUser never changes the named password hash: after any
\* interleaving of UpdateUser and UpdatePassword requests the named hash of
\* a user is the one written by the last successful UpdatePassword.
C24_HashIsLastPasswordUpdate ==
    \A id \in DOMAIN lastWritten : users[id].password_hash = lastWritten[id]

\* C25: every failing step of CreateUser ends with exactly one error
\* response and no user persisted; when hashing the password fails, no row
\* is created and no second response is written.
C25_CreateFailsOnce ==
    \A r \in DOMAIN userReqs :
        LET answers == userReqs[r].responses
        IN  (/\ Handled(r, "CreateUser")
             /\ \E i \in DOMAIN answers : IsError(answers[i]))
            => /\ Len(answers) = 1
               /\ userReqs[r].user.ID = 0

\* C26: no response body of a user endpoint (create, get, update, list,
\* search) contains the password hash.
C26_NoHashInBodies ==
    \A r \in DOMAIN userReqs :
        \A i \in DOMAIN userReqs[r].responses :
            LET objects == userReqs[r].responses[i].objects
            IN  \A j \in DOMAIN objects :
                    /\ "PasswordHash" \notin DOMAIN objects[j]
                    /\ \A k \in DOMAIN objects[j] \ {"id"} :
                           \A id \in DOMAIN users :
                               objects[j][k] # users[id].password_hash

\* a CreateUser request with a valid body and a password bcrypt hashes, no
\* database call of which failed for want of a connection
SoundCreate(r, username) ==
    /\ Handled(r, "CreateUser")
    /\ userReqs[r].in.decodes
    /\ userReqs[r].in.username = username
    /\ username # ""
    /\ userReqs[r].in.first_name # <<>>
    /\ userReqs[r].in.password.bytes \in 1..72
    /\ ~userReqs[r].dbFailed

\* C27: of concurrent CreateUser requests with the same username, free
\* before, at most one user is stored, exactly one request is answered 201
\* and every other one is rejected with 400 "Username already exists".
C27_OneCreatedOthersRejected ==
    \A r1, r2 \in DOMAIN userReqs :
        LET username == userReqs[r1].in.username
            creators == {r \in DOMAIN userReqs : SoundCreate(r, username)}
            named == {id \in DOMAIN users : users[id].username = username}
            created == {r \in creators : userReqs[r].responses[1].code = 201}
        IN  (/\ r1 # r2
             /\ {r1, r2} \subseteq creators
             /\ \A id \in named : \E r \in creators : userReqs[r].user.ID = id)
            => /\ Cardinality(named) <= 1
               /\ Cardinality(created) = 1
               /\ \A r \in creators :
                      /\ Len(userReqs[r].responses) = 1
                      /\ r \notin created =>
                             userReqs[r].responses[1] =
                                 Error(400, "Username already exists")

\* ------------------------------- properties: the executors' termination
\* C28: with maxConcurrency >= 1 and operations that each return, a call of
\* BatchOperation, BatchOperationWithResults, ConcurrentFetch or BulkDelete
\* returns under fair scheduling, with more tasks than maxConcurrency and
\* whether or not tasks fail: no task stays at the admission gate forever.
\* (An operation that panics ends the process.)
C28_ExecutorReturns ==
    (maxConcurrency >= 1) => <>(callerPc = "returned" \/ fatal # "none")

C28_Witness ==
    /\ fn \in GatedParamFns
    /\ maxConcurrency >= 1
    /\ N > maxConcurrency
    /\ sem = maxConcurrency
    /\ gErr # NoErr
    /\ fatal = "none"
    /\ \E t \in Tasks : pc[t] = "gate"

====
